---- MODULE Spec2Model ----
(***************************************************************************)
(* Verification model of the Wallet Plux anti-fraud engine                 *)
(* (motor_antifraude): the blacklist service, the session guard, the rate  *)
(* limiter and FraudOrchestrator.evaluate_transaction, over a Redis cache  *)
(* shared by concurrent callers.                                           *)
(*                                                                         *)
(* Every awaited Redis command is one atomic step; the Python code that    *)
(* runs between two awaits belongs to the step of the command before it.   *)
(* A Redis command may fail (connection error, timeout): each step draws   *)
(* the outcome of its command.                                             *)
(***************************************************************************)
EXTENDS Integers, Sequences, FiniteSets, TLC

(***************************************************************************)
(* Bounds of the model                                                     *)
(***************************************************************************)
NumUsers  == 2
NumEvals  == 1
NumChecks == 2
MaxRate   == 2
MaxCalls  == 2
MaxTicks  == 2
MaxDtCalls == 3
MaxRequests == 4
MaxAnalyses == 2
MaxIssued == 2
MaxVerifies == 4

Users     == 1..NumUsers
Evals     == 1..NumEvals
Checks    == 1..NumChecks
Devices   == {1}
Ips       == {1}
Bins      == {1}
Sids      == {1}
Reasons   == {"fraude_confirmado"}
TxIds     == {"t1"}
Nil       == "nil"

VARIABLES
    pyEnumFmt,   \* how this interpreter formats a (str, Enum) member in an f-string
    blStore,     \* Redis: blacklist key -> reason, Nil when the key is absent
    blTemp,      \* Redis: blacklist key -> TRUE when the key carries a TTL
    rateIp,      \* Redis: rate:ip:{ip} counter (0 = key absent)
    rateUser,    \* Redis: rate:user:{uid} counter (0 = key absent)
    session,     \* Redis: session:{sid} -> stored bytes, Nil when absent
    evalPc,      \* position of each evaluate_transaction call
    evalReq,     \* its payload
    evalBl,      \* the BlacklistHit that check() returned to it
    evalRate,    \* (rate_penalty, rate_codes) that the rate limiter returned to it
    evalOut,     \* how the call ended: a response or a raised exception
    evalSeen,    \* history: what the blacklist held for the payload when it was read
    sgPc,        \* position of each SessionGuard.check call
    sgReq,       \* its (session_id, user_id)
    sgRes,       \* its SessionGuardResult
    sgHist,      \* history: did its SET NX create the key, which owner it was compared to
    sidFault,    \* history: a command on session:{sid} failed or the key expired
    sidClean,    \* history: number of clean results returned for the sid (saturates at 2)
    daPc,        \* position of each application of the decision mapping
    daIn,        \* its (score, p2p_result)
    daOut,       \* its (action, challenge, user_message)
    agPc,        \* position of the evaluation whose fan-out has returned
    agIn,        \* its payload, result list and rate-limit result
    agOut,       \* the running score after each step and the response
    bs,          \* applications of _build_response: position, arguments, response
    kv,          \* Redis: the counters of the velocity script and of the P2P analyzer
    fl,          \* one evaluation from its fan-out to the end of its post-processing
    dt           \* the detectors and services called on their own: the clock, their
                 \* keys in Redis, their calls in progress

vars == <<pyEnumFmt, blStore, blTemp, rateIp, rateUser, session, evalPc, evalReq,
          evalBl, evalRate, evalOut, evalSeen, sgPc, sgReq, sgRes, sgHist,
          sidFault, sidClean, daPc, daIn, daOut, agPc, agIn, agOut, bs, kv, fl, dt>>

daVars   == <<daPc, daIn, daOut>>
agVars   == <<agPc, agIn, agOut>>
extVars  == <<bs, kv, fl, dt>>
pureVars == <<daVars, agVars, extVars>>
coreVars == <<pyEnumFmt, blStore, blTemp, rateIp, rateUser, session, evalPc, evalReq,
              evalBl, evalRate, evalOut, evalSeen, sgPc, sgReq, sgRes, sgHist,
              sidFault, sidClean, daPc, daIn, daOut, agPc, agIn, agOut>>
restVars == <<coreVars, bs, kv, fl>>
blVars   == <<blStore, blTemp>>
rateVars == <<rateIp, rateUser>>
evalVars == <<evalPc, evalReq, evalBl, evalRate, evalOut, evalSeen>>
sgVars   == <<session, sgPc, sgReq, sgRes, sgHist, sidFault, sidClean>>

(***************************************************************************)
(* Python values                                                           *)
(***************************************************************************)
PyStr(v)   == <<"str", v>>
PyBytes(v) == <<"bytes", v>>

\* RedisManager.connect builds the client with decode_responses = False
DecodeResponses == FALSE

\* what a GET returns for a stored string value
RedisReply(v) == IF DecodeResponses THEN PyStr(v) ELSE PyBytes(v)

\* Python ==: a bytes object never equals a str object
PyEq(a, b) == a = b

\* "_".join(tokens): a reason code is kept as its "_"-separated tokens
Code(tokens) == tokens

\* code.startswith(prefix + "_")
StartsWith(code, prefix) ==
    /\ Len(code) > Len(prefix)
    /\ SubSeq(code, 1, Len(prefix)) = prefix

(***************************************************************************)
(* Reason catalog and breakdown builder                                    *)
(***************************************************************************)
ExactCatalog ==
    (<<"BLACKLIST", "USER", "HIT">> :> 100) @@
    (<<"BLACKLIST", "DEVICE", "HIT">> :> 100) @@
    (<<"BLACKLIST", "IP", "HIT">> :> 100) @@
    (<<"BLACKLIST", "CARD", "HIT">> :> 100) @@
    (<<"IP", "RATE", "HIGH">> :> 15) @@
    (<<"IP", "RATE", "ELEVATED">> :> 10) @@
    (<<"IP", "RATE", "EXTREME">> :> 30) @@
    (<<"USER", "RATE", "HIGH">> :> 15) @@
    (<<"USER", "RATE", "ELEVATED">> :> 8) @@
    (<<"USER", "RATE", "EXTREME">> :> 35) @@
    (<<"HIGH", "VELOCITY", "OR", "LIMIT", "EXCEEDED">> :> 20) @@
    (<<"EMULATOR", "OR", "ROOT", "DETECTED">> :> 25) @@
    (<<"SUSPICIOUS", "DEVICE", "FINGERPRINT">> :> 15) @@
    (<<"LEARNING", "PERIOD", "ACTIVE">> :> 0) @@
    (<<"PROFILE", "CHANGED", "LAST", "24H">> :> 25) @@
    (<<"PAYDAY", "WINDOW", "REDUCTION">> :> 0) @@
    (<<"P2P", "NEW", "RECIPIENT", "FIRST", "TX">> :> 10) @@
    (<<"ACCOUNT", "AGE", "VERY", "NEW">> :> 20) @@
    (<<"ACCOUNT", "AGE", "NEW">> :> 10) @@
    (<<"AMOUNT", "3X", "ABOVE", "AVERAGE">> :> 20) @@
    (<<"HIGH", "FAILED", "TX", "LAST", "7D">> :> 25) @@
    (<<"FAILED", "TX", "LAST", "7D">> :> 10) @@
    (<<"HIGH", "AMOUNT", "NO", "KYC">> :> 15) @@
    (<<"INTERNATIONAL", "CARD">> :> 10) @@
    (<<"SESSION", "REPLAY", "ATTACK">> :> 40) @@
    (<<"SESSION", "HIJACK", "DETECTED">> :> 100) @@
    (<<"IP", "COUNTRY", "JUMP", "30MIN">> :> 25) @@
    (<<"IMPOSSIBLE", "IP", "JUMP", "5MIN">> :> 50) @@
    (<<"GPS", "OBFUSCATED", "ZERO", "COORDS">> :> 20) @@
    (<<"TRAVELER", "MODE", "ACTIVE">> :> 0) @@
    (<<"DUAL", "COUNTRY", "MISMATCH">> :> 20) @@
    (<<"TRIPLE", "COUNTRY", "MISMATCH">> :> 35) @@
    (<<"IMPOSSIBLE", "TRAVEL", "DETECTED">> :> 50) @@
    (<<"IMPOSSIBLE", "TRAVEL">> :> 50) @@
    (<<"VPN", "DETECTED">> :> 20) @@
    (<<"ML", "GEO", "ANOMALY">> :> 30) @@
    (<<"HIGH", "RISK", "IP", "COUNTRY", "RU">> :> 10) @@
    (<<"HIGH", "RISK", "IP", "COUNTRY", "CN">> :> 10) @@
    (<<"HIGH", "RISK", "IP", "COUNTRY", "KP">> :> 10) @@
    (<<"HIGH", "RISK", "IP", "COUNTRY", "IR">> :> 10) @@
    (<<"HIGH", "RISK", "IP", "COUNTRY", "NG">> :> 10) @@
    (<<"NIGHT", "TX", "NEW", "ACCOUNT">> :> 10) @@
    (<<"PREVENTIVE", "HOLD", "NEW", "ACCOUNT">> :> 10) @@
    (<<"OVERRIDE", "IMPOSSIBLE", "TRAVEL">> :> 100) @@
    (<<"OVERRIDE", "MULE", "PATTERN", "CONFIRMED">> :> 100)

PrefixCatalog ==
    <<
       [prefix |-> <<"GPS", "IP", "COUNTRY", "MISMATCH">>, points |-> 30],
       [prefix |-> <<"GPS", "IP", "DISTANCE">>, points |-> 20],
       [prefix |-> <<"NEW", "COUNTRY">>, points |-> 15],
       [prefix |-> <<"KNOWN", "COUNTRY", "REDUCTION">>, points |-> -10],
       [prefix |-> <<"HIGH", "RISK", "COUNTRY">>, points |-> 25],
       [prefix |-> <<"HIGH", "RISK", "IP", "COUNTRY">>, points |-> 10],
       [prefix |-> <<"CARD", "TESTING", "PATTERN">>, points |-> 40],
       [prefix |-> <<"RAPID", "BIN", "PROBE">>, points |-> 35],
       [prefix |-> <<"TX", "WITHIN">>, points |-> 15],
       [prefix |-> <<"CURRENCY", "CHANGE">>, points |-> 12],
       [prefix |-> <<"FIRST", "WEEK", "USER", "DAY">>, points |-> 10],
       [prefix |-> <<"P2P", "FREQUENT", "RECIPIENT">>, points |-> -8],
       [prefix |-> <<"UNUSUAL", "HOUR">>, points |-> 15],
       [prefix |-> <<"AMOUNT">>, points |-> 20],
       [prefix |-> <<"RECIPIENT", "ACCOUNT", "AGE">>, points |-> 20],
       [prefix |-> <<"RECIPIENT", "HIGH", "RISK", "SCORE">>, points |-> 15],
       [prefix |-> <<"FANOUT", "HIGH", "1H">>, points |-> 30],
       [prefix |-> <<"FANOUT", "MEDIUM", "24H">>, points |-> 15],
       [prefix |-> <<"RECIPIENT", "FANIN", "HIGH", "1H">>, points |-> 25],
       [prefix |-> <<"RECIPIENT", "FANIN", "HIGH", "24H">>, points |-> 12],
       [prefix |-> <<"SMURFING", "DAILY", "VOL">>, points |-> 35],
       [prefix |-> <<"RAPID", "DRAIN">>, points |-> 40]
    >>

RECURSIVE FirstPrefix(_, _)
FirstPrefix(code, i) ==
    IF i > Len(PrefixCatalog) THEN 0
    ELSE IF StartsWith(code, PrefixCatalog[i].prefix) THEN i
    ELSE FirstPrefix(code, i + 1)

\* the ScoreEntry that _build_breakdown makes for one code
ScoreEntry(code) ==
    IF code \in DOMAIN ExactCatalog
    THEN [code |-> code, points |-> ExactCatalog[code], category |-> "catalog"]
    ELSE LET k == FirstPrefix(code, 1)
         IN  IF k # 0
             THEN [code |-> code, points |-> PrefixCatalog[k].points, category |-> "catalog"]
             ELSE [code |-> code, points |-> 0, category |-> "Otro"]

\* list(dict.fromkeys(codes)): drop repeats, keep the first occurrence
RECURSIVE Dedup(_)
Dedup(codes) ==
    IF codes = <<>> THEN <<>>
    ELSE LET init == Dedup(SubSeq(codes, 1, Len(codes) - 1))
             last == codes[Len(codes)]
         IN  IF \E i \in 1..Len(init) : init[i] = last THEN init
             ELSE Append(init, last)

\* entries.sort(key = points, reverse = True): stable, larger points first
RECURSIVE InsertByPoints(_, _)
InsertByPoints(sorted, e) ==
    IF sorted = <<>> THEN <<e>>
    ELSE IF Head(sorted).points >= e.points
         THEN <<Head(sorted)>> \o InsertByPoints(Tail(sorted), e)
         ELSE <<e>> \o sorted

RECURSIVE SortByPoints(_)
SortByPoints(entries) ==
    IF entries = <<>> THEN <<>>
    ELSE InsertByPoints(SortByPoints(SubSeq(entries, 1, Len(entries) - 1)),
                        entries[Len(entries)])

build_breakdown(codes) ==
    LET seen == Dedup(codes)
    IN  SortByPoints([i \in 1..Len(seen) |-> ScoreEntry(seen[i])])

RECURSIVE SumPoints(_)
SumPoints(entries) ==
    IF entries = <<>> THEN 0
    ELSE Head(entries).points + SumPoints(Tail(entries))

(***************************************************************************)
(* BlacklistService                                                        *)
(***************************************************************************)
\* BlacklistType members checked by check(), in the insertion order of `keys`
BlacklistTypes == <<"user", "device", "ip", "bin">>

NoUser == 0

\* a payload with no value in any slot (an idle call)
NoPayload == [user_id |-> NoUser, device_id |-> 0, ip_address |-> 0,
              card_bin |-> 0, session_id |-> 0]

Payloads == [user_id : Users, device_id : Devices, ip_address : Ips,
             card_bin : Bins, session_id : Sids]

\* BlacklistType.X.value
EnumValue(t) == t

\* str(BlacklistType.X) of an Enum with a str mixin: class and member name
EnumStr(t) == CASE t = "user"   -> "BlacklistType.USER"
                [] t = "device" -> "BlacklistType.DEVICE"
                [] t = "ip"     -> "BlacklistType.IP"
                [] t = "bin"    -> "BlacklistType.BIN"

\* f"{BlacklistType.X}": format() of a mixed-in Enum is the member's value up
\* to Python 3.10 and Enum.__str__ from Python 3.11 on
FormatEnum(t) == IF pyEnumFmt = "value" THEN EnumValue(t) ELSE EnumStr(t)

\* the entity a payload carries in the slot of a blacklist type
Slot(t, payload) == CASE t = "user"   -> payload.user_id
                      [] t = "device" -> payload.device_id
                      [] t = "ip"     -> payload.ip_address
                      [] t = "bin"    -> payload.card_bin

SlotValues(t) == CASE t = "user"   -> Users
                   [] t = "device" -> Devices
                   [] t = "ip"     -> Ips
                   [] t = "bin"    -> Bins

BlKey(tag, value) == <<"blacklist", tag, value>>

TypeSet == {BlacklistTypes[i] : i \in 1..Len(BlacklistTypes)}

BlKeys == UNION {{BlKey(EnumValue(t), v) : v \in SlotValues(t)}
                    \cup {BlKey(EnumStr(t), v) : v \in SlotValues(t)} : t \in TypeSet}

\* the key check() reads for a type: f"{KEY_PREFIX}:{BlacklistType.X}:{value}"
CheckKey(t, payload) == BlKey(FormatEnum(t), Slot(t, payload))

\* the key add(), remove() and is_blocked() use: f"{KEY_PREFIX}:{bl_type.value}:{value}"
EntryKey(t, value) == BlKey(EnumValue(t), value)

RECURSIVE FirstHit(_, _, _)
FirstHit(store, payload, i) ==
    IF i > Len(BlacklistTypes) THEN 0
    ELSE IF store[CheckKey(BlacklistTypes[i], payload)] # Nil THEN i
    ELSE FirstHit(store, payload, i + 1)

NoHit == [hit |-> FALSE, blacklist_type |-> Nil, reason |-> Nil]

\* BlacklistService.check: one MGET, the first present key is the hit;
\* a Redis error is a miss
BlacklistCheck(store, payload, ok) ==
    IF ~ok \/ FirstHit(store, payload, 1) = 0 THEN NoHit
    ELSE LET t == BlacklistTypes[FirstHit(store, payload, 1)]
         IN  [hit |-> TRUE, blacklist_type |-> t,
              reason |-> store[CheckKey(t, payload)]]

\* BlacklistService.add
BlacklistAdd(t, value, reason, temporary, ok) ==
    /\ t \in TypeSet /\ value \in SlotValues(t)
    /\ IF ok
       THEN /\ blStore' = [blStore EXCEPT ![EntryKey(t, value)] = reason]
            /\ blTemp'  = [blTemp  EXCEPT ![EntryKey(t, value)] = temporary]
       ELSE UNCHANGED blVars
    /\ UNCHANGED <<pyEnumFmt, rateVars, evalVars, sgVars>>

\* BlacklistService.remove
BlacklistRemove(t, value, ok) ==
    /\ t \in TypeSet /\ value \in SlotValues(t)
    /\ IF ok
       THEN /\ blStore' = [blStore EXCEPT ![EntryKey(t, value)] = Nil]
            /\ blTemp'  = [blTemp  EXCEPT ![EntryKey(t, value)] = FALSE]
       ELSE UNCHANGED blVars
    /\ UNCHANGED <<pyEnumFmt, rateVars, evalVars, sgVars>>

\* Redis drops a temporary entry when its TTL (TEMP_BLOCK_TTL) runs out
BlacklistExpire(key) ==
    /\ blStore[key] # Nil /\ blTemp[key]
    /\ blStore' = [blStore EXCEPT ![key] = Nil]
    /\ blTemp'  = [blTemp  EXCEPT ![key] = FALSE]
    /\ UNCHANGED <<pyEnumFmt, rateVars, evalVars, sgVars>>

\* history: the first type, in check order, whose entry (as add() stores it)
\* the blacklist holds for the payload
RECURSIVE FirstHeld(_, _, _)
FirstHeld(store, payload, i) ==
    IF i > Len(BlacklistTypes) THEN Nil
    ELSE IF store[EntryKey(BlacklistTypes[i], Slot(BlacklistTypes[i], payload))] # Nil
         THEN BlacklistTypes[i]
    ELSE FirstHeld(store, payload, i + 1)

(***************************************************************************)
(* RateLimitScorer                                                         *)
(***************************************************************************)
IP_THRESHOLDS   == << <<11, 45, <<"IP", "RATE", "EXTREME">> >>,
                      <<7,  25, <<"IP", "RATE", "HIGH">> >>,
                      <<4,  10, <<"IP", "RATE", "ELEVATED">> >> >>

USER_THRESHOLDS == << <<20, 40, <<"USER", "RATE", "EXTREME">> >>,
                      <<10, 20, <<"USER", "RATE", "HIGH">> >>,
                      <<5,  8,  <<"USER", "RATE", "ELEVATED">> >> >>

\* for threshold, pts, code in table: if count >= threshold: ...; break
RECURSIVE Tier(_, _, _)
Tier(table, count, i) ==
    IF i > Len(table) THEN [pts |-> 0, codes |-> <<>>]
    ELSE IF count >= table[i][1] THEN [pts |-> table[i][2], codes |-> <<table[i][3]>>]
    ELSE Tier(table, count, i + 1)

Min(a, b) == IF a < b THEN a ELSE b
Max(a, b) == IF a > b THEN a ELSE b

\* RateLimitScorer.score after the pipeline answered (ip_count, user_count)
RatePenalty(ip_count, user_count) ==
    [penalty |-> Min(Tier(IP_THRESHOLDS, ip_count, 1).pts
                     + Tier(USER_THRESHOLDS, user_count, 1).pts, 60),
     codes   |-> Tier(IP_THRESHOLDS, ip_count, 1).codes
                 \o Tier(USER_THRESHOLDS, user_count, 1).codes]

NoRate == [penalty |-> 0, codes |-> <<>>]

\* Redis drops rate:ip:{ip} when its TTL (_WINDOW_SECONDS) runs out
RateIpExpire(ip) ==
    /\ rateIp[ip] > 0
    /\ rateIp' = [rateIp EXCEPT ![ip] = 0]
    /\ UNCHANGED <<pyEnumFmt, blVars, rateUser, evalVars, sgVars>>

\* Redis drops rate:user:{uid} when its TTL (_USER_WINDOW) runs out
RateUserExpire(u) ==
    /\ rateUser[u] > 0
    /\ rateUser' = [rateUser EXCEPT ![u] = 0]
    /\ UNCHANGED <<pyEnumFmt, blVars, rateIp, evalVars, sgVars>>

(***************************************************************************)
(* SessionGuard                                                            *)
(***************************************************************************)
PyNone == <<"None">>

NoResult == [penalty |-> 0, reason_codes |-> <<>>, override_block |-> FALSE]

\* SessionGuardResult built by check() once GET answered existing_user
SessionClassify(existing_user, user_id) ==
    IF PyEq(existing_user, PyStr(user_id))
    THEN [penalty |-> 40, reason_codes |-> <<Code(<<"SESSION", "REPLAY", "ATTACK">>)>>,
          override_block |-> FALSE]
    ELSE [penalty |-> 60, reason_codes |-> <<Code(<<"SESSION", "HIJACK", "DETECTED">>)>>,
          override_block |-> TRUE]

\* redis.get(key) of the session key
SessionGet(sid) == IF session[sid] = NoUser THEN PyNone ELSE RedisReply(session[sid])

NoHist == [created |-> FALSE, owner |-> NoUser, read |-> FALSE]

\* a caller invokes session_guard.check(session_id, user_id)
SgCall(q, sid, uid) ==
    /\ sgPc[q] = "idle"
    /\ sgPc'  = [sgPc  EXCEPT ![q] = "setnx"]
    /\ sgReq' = [sgReq EXCEPT ![q] = [session_id |-> sid, user_id |-> uid]]
    /\ UNCHANGED <<pyEnumFmt, blVars, rateVars, evalVars, session, sgRes, sgHist,
                   sidFault, sidClean>>

\* created = await redis.set(key, user_id, nx=True, ex=_SESSION_TTL)
SgSetNx(q, ok) ==
    LET sid == sgReq[q].session_id
        uid == sgReq[q].user_id
    IN  /\ sgPc[q] = "setnx"
        /\ IF ~ok
           THEN \* except Exception: the default result is returned
                /\ sgPc'     = [sgPc EXCEPT ![q] = "done"]
                /\ sgRes'    = [sgRes EXCEPT ![q] = NoResult]
                /\ sidFault' = [sidFault EXCEPT ![sid] = TRUE]
                /\ sidClean' = [sidClean EXCEPT ![sid] = Min(@ + 1, 2)]
                /\ UNCHANGED <<session, sgHist>>
           ELSE IF session[sid] = NoUser
           THEN \* the key was created: first use of the session
                /\ session'  = [session EXCEPT ![sid] = uid]
                /\ sgPc'     = [sgPc EXCEPT ![q] = "done"]
                /\ sgRes'    = [sgRes EXCEPT ![q] = NoResult]
                /\ sgHist'   = [sgHist EXCEPT ![q].created = TRUE]
                /\ sidClean' = [sidClean EXCEPT ![sid] = Min(@ + 1, 2)]
                /\ UNCHANGED sidFault
           ELSE /\ sgPc' = [sgPc EXCEPT ![q] = "get"]
                /\ UNCHANGED <<session, sgRes, sgHist, sidFault, sidClean>>
        /\ UNCHANGED <<pyEnumFmt, blVars, rateVars, evalVars, sgReq>>

\* existing_user = await redis.get(key), then the comparison with user_id
SgGet(q, ok) ==
    LET sid == sgReq[q].session_id
        uid == sgReq[q].user_id
    IN  /\ sgPc[q] = "get"
        /\ sgPc' = [sgPc EXCEPT ![q] = "done"]
        /\ IF ~ok
           THEN /\ sgRes'    = [sgRes EXCEPT ![q] = NoResult]
                /\ sidFault' = [sidFault EXCEPT ![sid] = TRUE]
                /\ sidClean' = [sidClean EXCEPT ![sid] = Min(@ + 1, 2)]
                /\ UNCHANGED sgHist
           ELSE /\ sgRes'  = [sgRes EXCEPT ![q] = SessionClassify(SessionGet(sid), uid)]
                /\ sgHist' = [sgHist EXCEPT ![q].owner = session[sid], ![q].read = TRUE]
                /\ UNCHANGED <<sidFault, sidClean>>
        /\ UNCHANGED <<pyEnumFmt, blVars, rateVars, evalVars, session, sgReq>>

\* Redis drops session:{sid} when its TTL (_SESSION_TTL) runs out
SessionExpire(sid) ==
    /\ session[sid] # NoUser
    /\ session'  = [session EXCEPT ![sid] = NoUser]
    /\ sidFault' = [sidFault EXCEPT ![sid] = TRUE]
    /\ UNCHANGED <<pyEnumFmt, blVars, rateVars, evalVars, sgPc, sgReq, sgRes, sgHist,
                   sidClean>>

(***************************************************************************)
(* FraudOrchestrator                                                       *)
(***************************************************************************)
MaxScore == 100

\* Python None where an object is expected
NoneResult == [none |-> TRUE]

IsNone(x) == "none" \in DOMAIN x

\* the p2p_result argument of _determine_action: None or a P2PAnalysisResult,
\* of which only should_hold_funds is read
P2PResults == {NoneResult} \cup [should_hold_funds : BOOLEAN]

MSG_DECLINED  == "Operacion declinada por politicas de seguridad."
MSG_APPROVED  == "Transaccion aprobada."
MSG_VERIFY    == "Por tu seguridad, necesitamos verificar tu identidad."
MSG_EXTRA     == "Se requiere verificacion adicional para continuar."
MSG_REVIEW    == "Tu transaccion esta siendo revisada. Te notificaremos pronto."
MSG_HOLD      == "Tu transferencia esta siendo verificada por seguridad."

\* _determine_action with the APPROVE boundary moved below 30
determine_action_lt30(score, p2p_result) ==
    IF ~IsNone(p2p_result) /\ p2p_result.should_hold_funds /\ score < 30
    THEN [action |-> "ACTION_CHALLENGE_HARD", challenge |-> "3DS", user_message |-> MSG_HOLD]
    ELSE IF score < 30
    THEN [action |-> "ACTION_APPROVE", challenge |-> Nil, user_message |-> MSG_APPROVED]
    ELSE IF score <= 60
    THEN [action |-> "ACTION_CHALLENGE_SOFT", challenge |-> "SMS_OTP", user_message |-> MSG_VERIFY]
    ELSE IF score <= 75
    THEN [action |-> "ACTION_CHALLENGE_HARD", challenge |-> "3DS", user_message |-> MSG_EXTRA]
    ELSE IF score <= 90
    THEN [action |-> "ACTION_BLOCK_REVIEW", challenge |-> Nil, user_message |-> MSG_REVIEW]
    ELSE [action |-> "ACTION_BLOCK_PERM", challenge |-> Nil, user_message |-> MSG_DECLINED]

\* _determine_action with the results of the 61-75 and 76-90 branches exchanged
determine_action_swapped(score, p2p_result) ==
    IF ~IsNone(p2p_result) /\ p2p_result.should_hold_funds /\ score <= 30
    THEN [action |-> "ACTION_CHALLENGE_HARD", challenge |-> "3DS", user_message |-> MSG_HOLD]
    ELSE IF score <= 30
    THEN [action |-> "ACTION_APPROVE", challenge |-> Nil, user_message |-> MSG_APPROVED]
    ELSE IF score <= 60
    THEN [action |-> "ACTION_CHALLENGE_SOFT", challenge |-> "SMS_OTP", user_message |-> MSG_VERIFY]
    ELSE IF score <= 75
    THEN [action |-> "ACTION_BLOCK_REVIEW", challenge |-> Nil, user_message |-> MSG_REVIEW]
    ELSE IF score <= 90
    THEN [action |-> "ACTION_CHALLENGE_HARD", challenge |-> "3DS", user_message |-> MSG_EXTRA]
    ELSE [action |-> "ACTION_BLOCK_PERM", challenge |-> Nil, user_message |-> MSG_DECLINED]

\* _determine_action telling a review caused by a held transfer apart
determine_action_leaky(score, p2p_result) ==
    IF ~IsNone(p2p_result) /\ p2p_result.should_hold_funds /\ score <= 30
    THEN [action |-> "ACTION_CHALLENGE_HARD", challenge |-> "3DS", user_message |-> MSG_HOLD]
    ELSE IF score <= 30
    THEN [action |-> "ACTION_APPROVE", challenge |-> Nil, user_message |-> MSG_APPROVED]
    ELSE IF score <= 60
    THEN [action |-> "ACTION_CHALLENGE_SOFT", challenge |-> "SMS_OTP", user_message |-> MSG_VERIFY]
    ELSE IF score <= 75
    THEN [action |-> "ACTION_CHALLENGE_HARD", challenge |-> "3DS", user_message |-> MSG_EXTRA]
    ELSE IF score <= 90
    THEN [action |-> "ACTION_BLOCK_REVIEW", challenge |-> Nil,
          user_message |-> IF ~IsNone(p2p_result) /\ p2p_result.should_hold_funds
                           THEN MSG_HOLD ELSE MSG_REVIEW]
    ELSE [action |-> "ACTION_BLOCK_PERM", challenge |-> Nil, user_message |-> MSG_DECLINED]

\* FraudOrchestrator._determine_action
determine_action(score, p2p_result) ==
    IF ~IsNone(p2p_result) /\ p2p_result.should_hold_funds /\ score <= 30
    THEN [action |-> "ACTION_CHALLENGE_HARD", challenge |-> "3DS", user_message |-> MSG_HOLD]
    ELSE IF score <= 30
    THEN [action |-> "ACTION_APPROVE", challenge |-> Nil, user_message |-> MSG_APPROVED]
    ELSE IF score <= 60
    THEN [action |-> "ACTION_CHALLENGE_SOFT", challenge |-> "SMS_OTP", user_message |-> MSG_VERIFY]
    ELSE IF score <= 75
    THEN [action |-> "ACTION_CHALLENGE_HARD", challenge |-> "3DS", user_message |-> MSG_EXTRA]
    ELSE IF score <= 90
    THEN [action |-> "ACTION_BLOCK_REVIEW", challenge |-> Nil, user_message |-> MSG_REVIEW]
    ELSE [action |-> "ACTION_BLOCK_PERM", challenge |-> Nil, user_message |-> MSG_DECLINED]

\* hmac.new(_HMAC_SECRET, json.dumps({...}, sort_keys=True, separators=(",", ":")))
\* over the three signed fields, keys in sorted order
HMAC_SECRET == "dev-secret-replace-in-production"

Signable(evaluation_id, action, risk_score) ==
    <<"action", action, "risk_score", risk_score, "transaction_id", evaluation_id>>

Sign(secret, message) == <<"hmac-sha256", secret, message>>

NoOutcome == [kind |-> "none", error |-> Nil, transaction_id |-> Nil, action |-> Nil,
              risk_score |-> 0, challenge_type |-> Nil, reason_codes |-> <<>>,
              score_breakdown |-> <<>>, user_message |-> Nil, signature |-> <<>>]

\* _build_response signing the reason codes along with the three fields
build_response_signs_codes(evaluation_id, action, risk_score, challenge, reason_codes, user_message) ==
    [kind            |-> "response",
     error           |-> Nil,
     transaction_id  |-> evaluation_id,
     action          |-> action,
     risk_score      |-> risk_score,
     challenge_type  |-> challenge,
     reason_codes    |-> Dedup(reason_codes),
     score_breakdown |-> build_breakdown(Dedup(reason_codes)),
     user_message    |-> user_message,
     signature       |-> Sign(HMAC_SECRET, Signable(evaluation_id, action, risk_score)
                                              \o <<"reason_codes", Dedup(reason_codes)>>)]

\* FraudOrchestrator._build_response
build_response(evaluation_id, action, risk_score, challenge, reason_codes, user_message) ==
    [kind            |-> "response",
     error           |-> Nil,
     transaction_id  |-> evaluation_id,
     action          |-> action,
     risk_score      |-> risk_score,
     challenge_type  |-> challenge,
     reason_codes    |-> Dedup(reason_codes),
     score_breakdown |-> build_breakdown(Dedup(reason_codes)),
     user_message    |-> user_message,
     signature       |-> Sign(HMAC_SECRET, Signable(evaluation_id, action, risk_score))]

Raised(evaluation_id, error) ==
    [NoOutcome EXCEPT !.kind = "raised", !.error = error, !.transaction_id = evaluation_id]

\* str.upper() of a BlacklistType value
Upper(t) == CASE t = "user"   -> "USER"
              [] t = "device" -> "DEVICE"
              [] t = "ip"     -> "IP"
              [] t = "bin"    -> "BIN"

\* f"BLACKLIST_{bl_hit.blacklist_type.value.upper()}_HIT"
BlacklistCode(t) == Code(<<"BLACKLIST", Upper(EnumValue(t)), "HIT">>)

\* the calls that build the task list of the fan-out, in list order, with the
\* keyword arguments the orchestrator passes
FanOutCalls ==
    << [callee |-> "_evaluate_kyc_device",   kwargs |-> {"payload"}],
       [callee |-> "_query_external_api",    kwargs |-> {"payload"}],
       [callee |-> "_evaluate_velocity",     kwargs |-> {"payload"}],
       [callee |-> "GeoAnalyzer.analyze",    kwargs |-> {"user_id", "latitude", "longitude",
                                                         "ip_country", "bin_country", "is_vpn"}],
       [callee |-> "BehaviorEngine.analyze", kwargs |-> {"user_id", "amount", "currency",
                                                         "transaction_type", "recipient_id"}],
       [callee |-> "TrustScoreService.get_trust_profile",
                                             kwargs |-> {"user_id", "device_id", "country_code"}],
       [callee |-> "IPHistoryAnalyzer.check", kwargs |-> {"user_id", "ip_address", "ip_country"}],
       [callee |-> "SessionGuard.check",     kwargs |-> {"session_id", "user_id"}],
       [callee |-> "CardTestingDetector.check", kwargs |-> {"device_id", "card_bin", "amount"}],
       [callee |-> "TimePatternScorer.score", kwargs |-> {"user_id", "account_age_days"}] >>

\* the parameters each callee declares: [required, optional]
Signatures ==
    ("_evaluate_kyc_device"   :> [req |-> {"payload"}, opt |-> {}]) @@
    ("_query_external_api"    :> [req |-> {"payload"}, opt |-> {}]) @@
    ("_evaluate_velocity"     :> [req |-> {"payload"}, opt |-> {}]) @@
    ("GeoAnalyzer.analyze"    :> [req |-> {"user_id", "latitude", "longitude", "ip_country",
                                           "bin_country"}, opt |-> {"is_vpn"}]) @@
    ("BehaviorEngine.analyze" :> [req |-> {"user_id", "amount", "currency", "transaction_type"},
                                  opt |-> {"recipient_id", "current_ts"}]) @@
    ("TrustScoreService.get_trust_profile"
                              :> [req |-> {"user_id", "device_id"}, opt |-> {"country_code"}]) @@
    ("IPHistoryAnalyzer.check" :> [req |-> {"user_id", "ip_address", "ip_country"}, opt |-> {}]) @@
    ("SessionGuard.check"     :> [req |-> {"session_id", "user_id"}, opt |-> {}]) @@
    ("CardTestingDetector.check" :> [req |-> {"device_id", "card_bin", "amount"}, opt |-> {}]) @@
    ("TimePatternScorer.score" :> [req |-> {"user_id"}, opt |-> {}])

\* Python binds the arguments when the coroutine function is called: an
\* unexpected or a missing keyword raises TypeError at the call
BindsOk(call) ==
    /\ call.kwargs \subseteq (Signatures[call.callee].req \cup Signatures[call.callee].opt)
    /\ Signatures[call.callee].req \subseteq call.kwargs

\* outcome of building `tasks`: "TypeError" when some call does not bind
FanOutSetup == IF \A i \in 1..Len(FanOutCalls) : BindsOk(FanOutCalls[i])
               THEN "ok" ELSE "TypeError"

NoSeen == [held |-> Nil, read_ok |-> FALSE]

\* a caller invokes evaluate_transaction(payload): evaluation_id = uuid4()
EvalCall(p, payload, txid) ==
    /\ evalPc[p] = "idle"
    /\ evalPc'  = [evalPc  EXCEPT ![p] = "blacklist"]
    /\ evalReq' = [evalReq EXCEPT ![p] = payload]
    /\ evalOut' = [evalOut EXCEPT ![p] = [NoOutcome EXCEPT !.transaction_id = txid]]
    /\ UNCHANGED <<pyEnumFmt, blVars, rateVars, evalBl, evalRate, evalSeen, sgVars>>

\* PASO 1: bl_hit = await self.blacklist.check(...); a hit returns at once
EvalBlacklist(p, ok) ==
    LET payload == evalReq[p]
        bl_hit  == BlacklistCheck(blStore, payload, ok)
        txid    == evalOut[p].transaction_id
    IN  /\ evalPc[p] = "blacklist"
        /\ evalBl'   = [evalBl EXCEPT ![p] = bl_hit]
        /\ evalSeen' = [evalSeen EXCEPT ![p].held = FirstHeld(blStore, payload, 1),
                                        ![p].read_ok = ok]
        /\ IF bl_hit.hit
           THEN /\ evalPc'  = [evalPc EXCEPT ![p] = "returned"]
                /\ evalOut' = [evalOut EXCEPT ![p] =
                                  build_response(txid, "ACTION_BLOCK_PERM", 100, Nil,
                                                 <<BlacklistCode(bl_hit.blacklist_type)>>,
                                                 MSG_DECLINED)]
           ELSE /\ evalPc' = [evalPc EXCEPT ![p] = "rate_limit"]
                /\ UNCHANGED evalOut
        /\ UNCHANGED <<pyEnumFmt, blVars, rateVars, evalReq, evalRate, sgVars>>

\* PASO 1b: rate_limit_scorer.score (one MULTI/EXEC pipeline: INCR + EXPIRE of
\* both counters), then PASO 2 builds the task list of the fan-out.
\* ok = FALSE: the pipeline raised; applied tells whether Redis had executed it.
EvalRateLimit(p, ok, applied) ==
    LET payload == evalReq[p]
        ip      == payload.ip_address
        uid     == payload.user_id
        txid    == evalOut[p].transaction_id
    IN  /\ evalPc[p] = "rate_limit"
        /\ rateIp[ip] < MaxRate /\ rateUser[uid] < MaxRate
        /\ IF applied
           THEN /\ rateIp'   = [rateIp   EXCEPT ![ip]  = @ + 1]
                /\ rateUser' = [rateUser EXCEPT ![uid] = @ + 1]
           ELSE UNCHANGED rateVars
        /\ evalRate' = [evalRate EXCEPT ![p] =
                           IF ok THEN RatePenalty(rateIp[ip] + 1, rateUser[uid] + 1)
                           ELSE NoRate]
        /\ IF FanOutSetup = "TypeError"
           THEN /\ evalPc'  = [evalPc EXCEPT ![p] = "raised"]
                /\ evalOut' = [evalOut EXCEPT ![p] = Raised(txid, "TypeError")]
           ELSE \* asyncio.gather starts the detectors
                /\ evalPc' = [evalPc EXCEPT ![p] = "gather"]
                /\ UNCHANGED evalOut
        /\ UNCHANGED <<pyEnumFmt, blVars, evalReq, evalBl, evalSeen, sgVars>>

(***************************************************************************)
(* evaluate_transaction from the result list of the fan-out to the         *)
(* response (PASO 2 unpacking to PASO 7); no await in between              *)
(***************************************************************************)
\* the weights of the risk formula, in hundredths; the sums below are exact
\* where Python adds IEEE doubles
W1_VELOCITY == 25
W2_DEVICE   == 20
W3_GEO      == 20
W4_BEHAVIOR == 20
W5_EXTERNAL == 15

\* an exception object left in the result list by gather(return_exceptions=True)
RaisedResult == [raised |-> "Exception"]

IsException(result) == "raised" \in DOMAIN result

\* a float result of a module
FloatResult(v) == [value |-> v]

\* FraudOrchestrator._safe_float
safe_float(result, fallback) ==
    IF IsException(result) THEN fallback
    ELSE IF "value" \in DOMAIN result THEN result.value
    ELSE fallback

\* FraudOrchestrator._safe_result
safe_result(result) == IF IsException(result) THEN NoneResult ELSE result

\* the clamp without its upper limit
ClampNoCeiling(x) == Max(0, x)

\* int(max(0, min(100, x))) on a whole number
Clamp(x) == Max(0, Min(100, x))

\* int(max(0.0, min(100.0, x))) with x given in hundredths
ClampHundredths(x) == Max(0, Min(10000, x)) \div 100

\* a payload field that was not sent (Optional[...] = None)
NoneField == -1

\* gps_ip_mismatch_detector.check, on the country that _country_from_coords
\* found for the coordinates (NoneCountry when no box contains them)
NoneCountry == "None"

HIGH_RISK_IP_COUNTRIES == {"RU", "CN", "KP", "IR", "NG", "GH", "CM"}

GpsIpCheck(gps_country, ip_country) ==
    LET high == IF ip_country \in HIGH_RISK_IP_COUNTRIES
                THEN [penalty |-> 10,
                      reason_codes |-> <<Code(<<"HIGH", "RISK", "IP", "COUNTRY", ip_country>>)>>]
                ELSE [penalty |-> 0, reason_codes |-> <<>>]
        mismatch == IF gps_country # NoneCountry /\ gps_country # ip_country
                    THEN [penalty |-> 10,
                          reason_codes |-> <<Code(<<"GPS", "IP", "COUNTRY", "MISMATCH",
                                                    gps_country, "VS", ip_country>>)>>]
                    ELSE [penalty |-> 0, reason_codes |-> <<>>]
    IN  [penalty      |-> mismatch.penalty + high.penalty,
         reason_codes |-> mismatch.reason_codes \o high.reason_codes]

\* PASO 3b: penalty and codes from the history fields of the payload
HistoryAdjust(payload) ==
    LET age == IF payload.account_age_days # NoneField /\ payload.account_age_days < 7
               THEN [penalty |-> 20, codes |-> <<Code(<<"ACCOUNT", "AGE", "VERY", "NEW">>)>>]
               ELSE IF payload.account_age_days # NoneField /\ payload.account_age_days < 30
               THEN [penalty |-> 10, codes |-> <<Code(<<"ACCOUNT", "AGE", "NEW">>)>>]
               ELSE [penalty |-> 0, codes |-> <<>>]
        avg == IF /\ payload.avg_monthly_amount # NoneField
                  /\ payload.avg_monthly_amount > 0
                  /\ payload.amount > payload.avg_monthly_amount * 3
               THEN [penalty |-> 20,
                     codes |-> <<Code(<<"AMOUNT", "3X", "ABOVE", "AVERAGE">>)>>]
               ELSE [penalty |-> 0, codes |-> <<>>]
        failed == IF payload.failed_tx_last_7_days = NoneField
                  THEN [penalty |-> 0, codes |-> <<>>]
                  ELSE IF payload.failed_tx_last_7_days >= 5
                  THEN [penalty |-> 25,
                        codes |-> <<Code(<<"HIGH", "FAILED", "TX", "LAST", "7D">>)>>]
                  ELSE IF payload.failed_tx_last_7_days >= 3
                  THEN [penalty |-> 10, codes |-> <<Code(<<"FAILED", "TX", "LAST", "7D">>)>>]
                  ELSE [penalty |-> 0, codes |-> <<>>]
        kyc == IF payload.kyc_level = "none" /\ payload.amount > 500
               THEN [penalty |-> 15, codes |-> <<Code(<<"HIGH", "AMOUNT", "NO", "KYC">>)>>]
               ELSE [penalty |-> 0, codes |-> <<>>]
        intl == IF payload.is_international_card
                THEN [penalty |-> 10, codes |-> <<Code(<<"INTERNATIONAL", "CARD">>)>>]
                ELSE [penalty |-> 0, codes |-> <<>>]
    IN  [penalty |-> age.penalty + avg.penalty + failed.penalty + kyc.penalty + intl.penalty,
         codes   |-> age.codes \o avg.codes \o failed.codes \o kyc.codes \o intl.codes]

\* override_block treated as one more penalty
ApplyOverridableAsPenalty(score, result) ==
    IF IsNone(result) THEN [score |-> score, codes |-> <<>>]
    ELSE IF result.penalty > 0
    THEN [score |-> Clamp(score + result.penalty), codes |-> result.reason_codes]
    ELSE [score |-> score, codes |-> <<>>]

\* an IPHistoryResult or SessionGuardResult applied to the running score
ApplyOverridable(score, result) ==
    IF IsNone(result) THEN [score |-> score, codes |-> <<>>]
    ELSE IF result.override_block THEN [score |-> 100, codes |-> result.reason_codes]
    ELSE IF result.penalty > 0
    THEN [score |-> Clamp(score + result.penalty), codes |-> result.reason_codes]
    ELSE [score |-> score, codes |-> <<>>]

\* a CardTestingResult, TimePatternResult or GPSIPResult applied to the running score
ApplyPenalty(score, result) ==
    IF ~IsNone(result) /\ result.penalty > 0
    THEN [score |-> Clamp(score + result.penalty), codes |-> result.reason_codes]
    ELSE [score |-> score, codes |-> <<>>]

ReasonsOf(result) == IF IsNone(result) THEN <<>> ELSE result.reason_codes

\* f"TRUST_REDUCTION_{abs(trust_reduction)}PTS"
TrustCode(trust_reduction) ==
    Code(<<"TRUST", "REDUCTION", ToString(0 - trust_reduction) \o "PTS">>)

\* the travel override assigning 76 instead of raising to it
TravelOverrideAssign(score, geo_result) ==
    IF ~IsNone(geo_result) /\ geo_result.impossible_travel_detected
    THEN [score |-> 76, codes |-> <<Code(<<"OVERRIDE", "IMPOSSIBLE", "TRAVEL">>)>>]
    ELSE [score |-> score, codes |-> <<>>]

\* PASO 5: impossible travel, at least BLOCK_REVIEW
TravelOverride(score, geo_result) ==
    IF ~IsNone(geo_result) /\ geo_result.impossible_travel_detected
    THEN [score |-> Max(score, 76), codes |-> <<Code(<<"OVERRIDE", "IMPOSSIBLE", "TRAVEL">>)>>]
    ELSE [score |-> score, codes |-> <<>>]

\* PASO 5: confirmed mule pattern, always BLOCK_PERM
MuleOverride(score, p2p_result) ==
    IF ~IsNone(p2p_result) /\ p2p_result.mule_pattern_detected
    THEN [score |-> Max(score, 91),
          codes |-> <<Code(<<"OVERRIDE", "MULE", "PATTERN", "CONFIRMED">>)>>]
    ELSE [score |-> score, codes |-> <<>>]

\* from the result list to the decision: the running score after each step,
\* the reason codes and the action
Aggregate(payload, raw_results, rate) ==
    LET is_p2p           == payload.transaction_type = "P2P_SEND"
        device_score     == safe_float(raw_results[1], 30)
        ext_score        == safe_float(raw_results[2], 15)
        velocity_score   == safe_float(raw_results[3], 20)
        geo_result       == safe_result(raw_results[4])
        behavior_result  == safe_result(raw_results[5])
        trust_profile    == safe_result(raw_results[6])
        ip_hist_result   == safe_result(raw_results[7])
        session_result   == safe_result(raw_results[8])
        card_test_result == safe_result(raw_results[9])
        time_result      == safe_result(raw_results[10])
        p2p_result       == IF is_p2p /\ Len(raw_results) > 10
                            THEN safe_result(raw_results[11]) ELSE NoneResult
        geo_score        == IF IsNone(geo_result) THEN 20 ELSE geo_result.score
        behavior_score   == IF IsNone(behavior_result) THEN 10 ELSE behavior_result.score
        trust_reduction  == IF IsNone(trust_profile) THEN 0 ELSE trust_profile.trust_reduction
        weighted_score   == W1_VELOCITY * velocity_score + W2_DEVICE * device_score
                              + W3_GEO * geo_score + W4_BEHAVIOR * behavior_score
                              + W5_EXTERNAL * ext_score
        p2p_penalty      == IF IsNone(p2p_result) THEN 0 ELSE 30 * p2p_result.score
        s_weighted       == ClampHundredths(weighted_score + p2p_penalty + 100 * trust_reduction)
        history          == HistoryAdjust(payload)
        s_history        == Clamp(s_weighted + history.penalty)
        s_rate           == IF rate.penalty > 0 THEN Clamp(s_history + rate.penalty)
                            ELSE s_history
        rate_codes       == IF rate.penalty > 0 THEN rate.codes ELSE <<>>
        gps              == ApplyPenalty(s_rate, GpsIpCheck(payload.gps_country,
                                                            payload.ip_country))
        ip_hist          == ApplyOverridable(gps.score, ip_hist_result)
        sess             == ApplyOverridable(ip_hist.score, session_result)
        card             == ApplyPenalty(sess.score, card_test_result)
        tpat             == ApplyPenalty(card.score, time_result)
        device_codes     == IF device_score >= 80
                            THEN <<Code(<<"EMULATOR", "OR", "ROOT", "DETECTED">>)>>
                            ELSE IF device_score >= 60
                            THEN <<Code(<<"SUSPICIOUS", "DEVICE", "FINGERPRINT">>)>>
                            ELSE <<>>
        velocity_codes   == IF velocity_score >= 40
                            THEN <<Code(<<"HIGH", "VELOCITY", "OR", "LIMIT", "EXCEEDED">>)>>
                            ELSE <<>>
        trust_codes      == IF ~IsNone(trust_profile) /\ trust_profile.trust_reduction < -10
                            THEN <<TrustCode(trust_profile.trust_reduction)>>
                            ELSE <<>>
        travel           == TravelOverride(tpat.score, geo_result)
        mule             == MuleOverride(travel.score, p2p_result)
        reason_codes     ==
            history.codes \o rate_codes \o gps.codes \o ip_hist.codes \o sess.codes
              \o card.codes \o tpat.codes \o device_codes \o velocity_codes
              \o ReasonsOf(geo_result) \o ReasonsOf(behavior_result)
              \o ReasonsOf(p2p_result) \o trust_codes
              \o travel.codes \o mule.codes
    IN  [running      |-> [weighted |-> s_weighted, history |-> s_history, rate |-> s_rate,
                           gps |-> gps.score, ip_history |-> ip_hist.score,
                           session |-> sess.score, card_testing |-> card.score,
                           time_pattern |-> tpat.score, travel |-> travel.score,
                           mule |-> mule.score],
         final_score  |-> mule.score,
         reason_codes |-> reason_codes,
         decision     |-> determine_action(mule.score, p2p_result)]

\* results the modules can put in the result list
DeviceRaws   == {FloatResult(0), FloatResult(90), RaisedResult}
ExternalRaws == {FloatResult(10)}
VelocityRaws == {FloatResult(0), FloatResult(100)}
GeoRaws ==
    {RaisedResult,
     [score |-> 0, reason_codes |-> <<>>, impossible_travel_detected |-> FALSE],
     [score |-> 40, reason_codes |-> <<Code(<<"IMPOSSIBLE", "TRAVEL", "DETECTED">>)>>,
      impossible_travel_detected |-> TRUE]}
BehaviorRaws ==
    {RaisedResult,
     [score |-> 15, reason_codes |-> <<Code(<<"UNUSUAL", "HOUR", "3H">>)>>]}
TrustRaws == {RaisedResult, [trust_reduction |-> -25]}
IpHistoryRaws ==
    {[penalty |-> 0, reason_codes |-> <<>>, override_block |-> FALSE],
     [penalty |-> 25, reason_codes |-> <<Code(<<"IP", "COUNTRY", "JUMP", "30MIN">>)>>,
      override_block |-> FALSE],
     [penalty |-> 50, reason_codes |-> <<Code(<<"IMPOSSIBLE", "IP", "JUMP", "5MIN">>)>>,
      override_block |-> TRUE]}
SessionRaws ==
    {NoResult, SessionClassify(PyStr(1), 1), SessionClassify(PyBytes(1), 1)}
CardTestingRaws ==
    {[penalty |-> 0, reason_codes |-> <<>>],
     [penalty |-> 75,
      reason_codes |-> <<Code(<<"RAPID", "BIN", "PROBE", "5", "IN", "10MIN">>),
                         Code(<<"CARD", "TESTING", "PATTERN", "3", "PROBES">>)>>]}
TimePatternRaws ==
    {[penalty |-> 0, reason_codes |-> <<>>],
     [penalty |-> 15,
      reason_codes |-> <<Code(<<"UNUSUAL", "HOUR", "3H", "NEVER", "ACTIVE">>)>>]}
P2PRaws ==
    {RaisedResult,
     [score |-> 0, reason_codes |-> <<>>, mule_pattern_detected |-> FALSE,
      should_hold_funds |-> FALSE],
     [score |-> 20,
      reason_codes |-> <<Code(<<"RECIPIENT", "ACCOUNT", "AGE", "5H">>),
                         Code(<<"PREVENTIVE", "HOLD", "NEW", "ACCOUNT">>)>>,
      mule_pattern_detected |-> FALSE, should_hold_funds |-> TRUE],
     [score |-> 25,
      reason_codes |-> <<Code(<<"RECIPIENT", "FANIN", "HIGH", "1H", "6", "SENDERS">>)>>,
      mule_pattern_detected |-> TRUE, should_hold_funds |-> FALSE],
     [score |-> 40,
      reason_codes |-> <<Code(<<"RAPID", "DRAIN", "90PCT", "IN", "30MIN">>)>>,
      mule_pattern_detected |-> TRUE, should_hold_funds |-> TRUE]}

\* the fields of three payloads that the scoring reads: no history sent, a
\* young account, a risky one (ip_country is "MX" unless a middleware set it)
HistoryProfiles ==
    {[account_age_days |-> NoneField, amount |-> 100, avg_monthly_amount |-> NoneField,
      failed_tx_last_7_days |-> NoneField, kyc_level |-> "full",
      is_international_card |-> FALSE, gps_country |-> "MX", ip_country |-> "MX"],
     [account_age_days |-> 20, amount |-> 100, avg_monthly_amount |-> 200,
      failed_tx_last_7_days |-> 3, kyc_level |-> "none",
      is_international_card |-> FALSE, gps_country |-> NoneCountry, ip_country |-> "MX"],
     [account_age_days |-> 3, amount |-> 1000, avg_monthly_amount |-> 200,
      failed_tx_last_7_days |-> 5, kyc_level |-> "none",
      is_international_card |-> TRUE, gps_country |-> "US", ip_country |-> "RU"]}

AgPayload(h, t) ==
    [transaction_type      |-> t,
     account_age_days      |-> h.account_age_days,
     amount                |-> h.amount,
     avg_monthly_amount    |-> h.avg_monthly_amount,
     failed_tx_last_7_days |-> h.failed_tx_last_7_days,
     kyc_level             |-> h.kyc_level,
     is_international_card |-> h.is_international_card,
     gps_country           |-> h.gps_country,
     ip_country            |-> h.ip_country]

\* what is gathered last: nothing unless the payload is a P2P_SEND with a recipient
NoP2PTask == [absent |-> TRUE]

P2PSlots == {NoP2PTask} \cup P2PRaws

RateResults == {NoRate, RatePenalty(100, 100)}

NoAgIn == [payload |-> AgPayload(CHOOSE h \in HistoryProfiles : h.kyc_level = "full",
                                 "PAYMENT"),
           raw_results |-> <<>>, rate |-> NoRate]

NoAgOut == [running |-> [weighted |-> 0], response |-> NoOutcome]

\* the fan-out has delivered its result list: unpack, score, decide, sign
AgFinish(payload, raw_results, rate, txid) ==
    LET a == Aggregate(payload, raw_results, rate)
    IN  /\ agPc = "idle"
        /\ agPc' = "done"
        /\ agIn' = [payload |-> payload, raw_results |-> raw_results, rate |-> rate]
        /\ agOut' = [running  |-> a.running,
                     response |-> build_response(txid, a.decision.action, a.final_score,
                                                 a.decision.challenge, a.reason_codes,
                                                 a.decision.user_message)]
        /\ UNCHANGED <<pyEnumFmt, blVars, rateVars, evalVars, sgVars, daVars, extVars>>

(***************************************************************************)
(* Decision mapping applied to drawn inputs                                *)
(***************************************************************************)
DaCalls == {"first", "second"}

NoDecision == [action |-> Nil, challenge |-> Nil, user_message |-> Nil]

\* the orchestrator (or any caller) applies _determine_action to its input
Decide(c) ==
    /\ daPc[c] = "input"
    /\ daPc'  = [daPc  EXCEPT ![c] = "done"]
    /\ daOut' = [daOut EXCEPT ![c] = determine_action(daIn[c].score, daIn[c].p2p_result)]
    /\ UNCHANGED <<pyEnumFmt, blVars, rateVars, evalVars, sgVars, daIn, agVars, extVars>>

(***************************************************************************)
(* Counters in Redis: the velocity script of TopUpRulesEngine and the      *)
(* counter pipeline of P2PAnalyzer, called by concurrent evaluations       *)
(***************************************************************************)
VELOCITY_KEY   == "velocity:{user_id}:10m"
LIMIT_KEY      == "limit:{user_id}:24h"
CARDS_KEY      == "cards:{user_id}:24h"
FANOUT_1H_KEY  == "p2p:fanout:1h:{user_id}"
FANOUT_24H_KEY == "p2p:fanout:24h:{user_id}"
FANIN_1H_KEY   == "p2p:fanin:1h:{user_id}"
FANIN_24H_KEY  == "p2p:fanin:24h:{user_id}"
DAILY_VOL_KEY  == "p2p:daily_vol:{user_id}"

\* the users whose counters the evaluations touch
KvUsers == {1, 2}

\* template.format(user_id = u)
KvKey(template, u) == <<template, u>>

NumTemplates == {VELOCITY_KEY, LIMIT_KEY, DAILY_VOL_KEY}
SetTemplates == {CARDS_KEY, FANOUT_1H_KEY, FANOUT_24H_KEY, FANIN_1H_KEY, FANIN_24H_KEY}

NumKeys == {KvKey(t, u) : t \in NumTemplates, u \in KvUsers}
SetKeys == {KvKey(t, u) : t \in SetTemplates, u \in KvUsers}
KvKeys  == NumKeys \cup SetKeys

\* amounts of a payload (Decimal, gt = 0)
Amounts == {100, 450}

\* what the TTL command answers for a key that does not exist, and for a key
\* that has no expiry
TTL_NO_KEY    == 0 - 2
TTL_NO_EXPIRE == 0 - 1

\* the seconds given to EXPIRE
SECONDS_10M == 600
SECONDS_1H  == 3600
SECONDS_24H == 86400

\* the expiry of a key: secs is TTL_NO_KEY, TTL_NO_EXPIRE or the seconds of
\* the EXPIRE that set it, and `at` the number of the call that issued that
\* EXPIRE (0 when there is none)
NoKey    == [secs |-> TTL_NO_KEY, at |-> 0]
NoExpire == [secs |-> TTL_NO_EXPIRE, at |-> 0]

\* `calls` counts the commands sent; `handed` is history: the tx counts the
\* script has returned for a user since the velocity key was created
InitKv == [num    |-> [k \in NumKeys |-> 0],
           set    |-> [k \in SetKeys |-> {}],
           ttl    |-> [k \in KvKeys |-> NoKey],
           calls  |-> 0,
           handed |-> [u \in KvUsers |-> <<>>]]

\* INCRBYFLOAT replaced by SET
IncrByFloatAsSet(old, amount) == amount

\* INCRBYFLOAT key amount
IncrByFloat(old, amount) == old + amount

\* redis.call('EXPIRE', key, seconds) / pipe.expire(key, seconds), issued by
\* call number `call`
Expire(seconds, call) == [secs |-> seconds, at |-> call]

\* EXPIRE issued on every execution
ExpireAlways(ttl, seconds, call) == Expire(seconds, call)

\* if redis.call('TTL', key) == -1 then redis.call('EXPIRE', key, seconds) end
ExpireIfNew(ttl, seconds, call) ==
    IF ttl.secs = TTL_NO_EXPIRE THEN Expire(seconds, call) ELSE ttl

\* the expiry of a key after a write command creates or updates it
Touch(ttl) == IF ttl.secs = TTL_NO_KEY THEN NoExpire ELSE ttl

\* _LUA_SCRIPT on KEYS = velocity, limit, cards of user u, run as call number
\* `call`: the cache after the script and the triple it returns
LuaScript(cache, u, amount, card_bin, call) ==
    LET vel   == KvKey(VELOCITY_KEY, u)
        lim   == KvKey(LIMIT_KEY, u)
        cards == KvKey(CARDS_KEY, u)
        tx_count       == cache.num[vel] + 1
        daily_total    == IncrByFloat(cache.num[lim], amount)
        distinct_cards == Cardinality(cache.set[cards] \cup {card_bin})
    IN  [cache  |-> [cache EXCEPT
                       !.num[vel]   = tx_count,
                       !.ttl[vel]   = ExpireIfNew(Touch(@), SECONDS_10M, call),
                       !.num[lim]   = daily_total,
                       !.ttl[lim]   = ExpireIfNew(Touch(@), SECONDS_24H, call),
                       !.set[cards] = @ \cup {card_bin},
                       !.ttl[cards] = ExpireIfNew(Touch(@), SECONDS_24H, call)],
         result |-> [tx_count |-> tx_count, daily_total |-> daily_total,
                     distinct_cards |-> distinct_cards]]

\* _evaluate_velocity -> TopUpRulesEngine.evaluate: one EVAL of the script
\* sent to Redis, by a first attempt or by a retry of the client after a
\* timeout; applied tells whether Redis ran the script
TopUpEvaluate(u, amount, card_bin, applied) ==
    LET run == LuaScript(kv, u, amount, card_bin, kv.calls + 1)
        now == IF applied THEN run.cache ELSE kv
    IN  /\ kv.calls < MaxCalls
        /\ kv' = [now EXCEPT
                    !.calls     = @ + 1,
                    !.handed[u] = IF applied THEN Append(@, run.result.tx_count) ELSE @]
        /\ UNCHANGED <<coreVars, bs, fl, dt>>

\* P2PAnalyzer._update_counters, run as call number `call`: one MULTI/EXEC
\* pipeline of five writes, each followed by its EXPIRE
update_counters(cache, sender_id, recipient_id, amount, call) ==
    [cache EXCEPT
       !.set[KvKey(FANOUT_1H_KEY, sender_id)]    = @ \cup {recipient_id},
       !.ttl[KvKey(FANOUT_1H_KEY, sender_id)]    = Expire(SECONDS_1H, call),
       !.set[KvKey(FANOUT_24H_KEY, sender_id)]   = @ \cup {recipient_id},
       !.ttl[KvKey(FANOUT_24H_KEY, sender_id)]   = Expire(SECONDS_24H, call),
       !.set[KvKey(FANIN_1H_KEY, recipient_id)]  = @ \cup {sender_id},
       !.ttl[KvKey(FANIN_1H_KEY, recipient_id)]  = Expire(SECONDS_1H, call),
       !.set[KvKey(FANIN_24H_KEY, recipient_id)] = @ \cup {sender_id},
       !.ttl[KvKey(FANIN_24H_KEY, recipient_id)] = Expire(SECONDS_24H, call),
       !.num[KvKey(DAILY_VOL_KEY, sender_id)]    = IncrByFloat(@, amount),
       !.ttl[KvKey(DAILY_VOL_KEY, sender_id)]    = Expire(SECONDS_24H, call)]

\* the call of _update_counters inside P2PAnalyzer.analyze: one EXEC of the
\* pipeline sent to Redis, by a first attempt or by a retry of the client;
\* an error is logged and swallowed
P2PUpdateCounters(sender_id, recipient_id, amount, applied) ==
    LET now == IF applied
               THEN update_counters(kv, sender_id, recipient_id, amount, kv.calls + 1)
               ELSE kv
    IN  /\ kv.calls < MaxCalls
        /\ kv' = [now EXCEPT !.calls = @ + 1]
        /\ UNCHANGED <<coreVars, bs, fl, dt>>

\* Redis deletes the keys whose expiry has come: the keys given the same
\* seconds by the same call expire at the same instant
KvExpire(e) ==
    LET gone == {k \in KvKeys : kv.ttl[k] = e}
    IN  /\ e.secs > 0
        /\ gone # {}
        /\ kv' = [kv EXCEPT
                    !.ttl    = [k \in KvKeys |-> IF k \in gone THEN NoKey ELSE kv.ttl[k]],
                    !.num    = [k \in NumKeys |-> IF k \in gone THEN 0 ELSE kv.num[k]],
                    !.set    = [k \in SetKeys |-> IF k \in gone THEN {} ELSE kv.set[k]],
                    !.handed = [u \in KvUsers |-> IF KvKey(VELOCITY_KEY, u) \in gone
                                                THEN <<>> ELSE kv.handed[u]]]
        /\ UNCHANGED <<coreVars, bs, fl, dt>>

(***************************************************************************)
(* One evaluation from the rate limiter to the end of its background task: *)
(* which keys each writer writes, and when                                 *)
(***************************************************************************)
\* a string is kept as the sequence of its parts between ':' characters, so
\* that a key is the concatenation of the parts of its template and fields
FlUser      == <<"u1">>
FlRecipient == <<"u2">>
FlBin       == <<"411111">>
FlIp        == <<"10.0.0.1">>
FlSession   == <<"s1">>

\* device_id is any non-empty str: it may hold ':' and look like a key suffix
FlDevices == {<<"d1">>, <<"user", "u1", "known_devices">>}

\* recipient_id = <<>> stands for None
FlPayloads ==
    {[user_id |-> FlUser, device_id |-> d, card_bin |-> FlBin, ip_address |-> FlIp,
      session_id |-> FlSession, transaction_type |-> k[1], recipient_id |-> k[2]] :
        d \in FlDevices,
        k \in {<<"PAYMENT", <<>>>>, <<"P2P_SEND", <<>>>>, <<"P2P_SEND", FlRecipient>>}}

NoFlPayload ==
    [user_id |-> <<>>, device_id |-> <<>>, card_bin |-> <<>>, ip_address |-> <<>>,
     session_id |-> <<>>, transaction_type |-> Nil, recipient_id |-> <<>>]

\* is_p2p and payload.recipient_id
FlIsP2P(p) == p.transaction_type = "P2P_SEND" /\ p.recipient_id # <<>>

\* the keys each writer writes for a payload
RateKeys(p) == {<<"rate", "ip">> \o p.ip_address, <<"rate", "user">> \o p.user_id}

VelocityKeys(p) ==
    {<<"velocity">> \o p.user_id \o <<"10m">>, <<"limit">> \o p.user_id \o <<"24h">>,
     <<"cards">> \o p.user_id \o <<"24h">>}

DeviceKeys(p) ==
    {<<"device", "user">> \o p.user_id \o <<"known_devices">>,
     <<"device">> \o p.device_id \o <<"users_24h">>,
     <<"device">> \o p.device_id \o <<"cards_10min">>}

GeoKeys(p) ==
    {<<"geo", "user">> \o p.user_id \o <<"last_tx">>,
     <<"geo", "user">> \o p.user_id \o <<"country_history">>}

\* the IP history kept under the key of the last location
IpHistoryKeysAsGeo(p) == {<<"geo", "user">> \o p.user_id \o <<"last_tx">>}

IpHistoryKeys(p) == {<<"ip_history", "user">> \o p.user_id}

SessionKeys(p) == {<<"session">> \o p.session_id}

CardTestKeys(p) ==
    {<<"card_test">> \o p.device_id \o p.card_bin \o <<"amounts">>,
     <<"card_test">> \o p.card_bin \o <<"rate_10min">>}

TimePatternKeys(p) ==
    {<<"timepattern", "user">> \o p.user_id \o <<"bitmap">>,
     <<"timepattern", "user">> \o p.user_id \o <<"tx_count">>}

ExtKeys(p) == {<<"ext", "score">> \o p.user_id \o p.device_id}

P2PCounterKeys(p) ==
    {<<"p2p", "fanout", "1h">> \o p.user_id, <<"p2p", "fanout", "24h">> \o p.user_id,
     <<"p2p", "fanin", "1h">> \o p.recipient_id, <<"p2p", "fanin", "24h">> \o p.recipient_id,
     <<"p2p", "daily_vol">> \o p.user_id}

AccumRiskKeys(p) == {<<"p2p", "accum_risk">> \o p.user_id}

TrustKeys(p) == {<<"trust", "user">> \o p.user_id \o <<"total_successful_tx">>}

BehaviorKeys(p) == {<<"behavior", "user">> \o p.user_id \o <<"recipients">>}

Writers ==
    {"rate_limiter", "velocity", "device", "geo", "ip_history", "session_guard",
     "card_testing", "time_pattern", "external_cache", "p2p", "trust", "behavior"}

\* the coroutines handed to asyncio.gather
BaseTasks ==
    {"kyc_device", "external_api", "velocity", "geo", "behavior", "trust", "ip_history",
     "session_guard", "card_testing", "time_pattern"}

FlTasks(p) == IF FlIsP2P(p) THEN BaseTasks \cup {"p2p"} ELSE BaseTasks

\* the writer a task of the fan-out acts as, Nil for a task that only reads
TaskWriter(d) ==
    CASE d = "external_api"  -> "external_cache"
      [] d = "velocity"      -> "velocity"
      [] d = "geo"           -> "geo"
      [] d = "ip_history"    -> "ip_history"
      [] d = "session_guard" -> "session_guard"
      [] d = "card_testing"  -> "card_testing"
      [] d = "time_pattern"  -> "time_pattern"
      [] d = "p2p"           -> "p2p"
      [] OTHER               -> Nil

\* the keys a task of the fan-out writes before it returns
TaskKeys(d, p) ==
    CASE d = "external_api"  -> ExtKeys(p)
      [] d = "velocity"      -> VelocityKeys(p)
      [] d = "geo"           -> GeoKeys(p)
      [] d = "ip_history"    -> IpHistoryKeys(p)
      [] d = "session_guard" -> SessionKeys(p)
      [] d = "card_testing"  -> CardTestKeys(p)
      [] d = "time_pattern"  -> TimePatternKeys(p)
      [] d = "p2p"           -> P2PCounterKeys(p)
      [] OTHER               -> {}

\* Retry(retries = 3) of the Redis client: a command that times out is sent again
RETRIES == 3

\* how many times Redis can have run one command of the client, and whether
\* the client saw it succeed: an attempt seen to succeed is the last one, and
\* an attempt that timed out may have been run
Attempt(runs, ok) == runs \in 0..(RETRIES + 1) /\ (ok => runs >= 1)

\* the counter and audit writes of the background task: the INCR of
\* record_successful_transaction, the HINCRBY of record_successful_tx and the
\* INSERT of save_evaluation
BgWrites == {"total_successful_tx", "recipients", "audit"}

\* pc: where evaluate_transaction is; pending: the tasks gather still waits
\* for; late: the fan-out has lasted longer than the deadline of the
\* specification; response: what _build_response made; returned: what the
\* caller received; bg: where _background_updates is; wrote: the keys each
\* writer has written; bare: the keys that exist without an expiry;
\* applied: how many times each counter or audit write of the background
\* task has been run
NoFl == [pc       |-> "idle",
         payload  |-> NoFlPayload,
         pending  |-> {},
         late     |-> FALSE,
         response |-> NoOutcome,
         returned |-> NoOutcome,
         bg       |-> "none",
         wrote    |-> [w \in Writers |-> {}],
         bare     |-> {},
         applied  |-> [w \in BgWrites |-> 0],
         hit      |-> Nil]

\* evaluate_transaction is called; the blacklist step has let the payload pass
FlCall(payload) ==
    /\ fl.pc = "idle"
    /\ fl' = [fl EXCEPT !.pc = "rate", !.payload = payload]
    /\ UNCHANGED <<coreVars, bs, kv, dt>>

\* a hit that falls through to PASO 1b instead of returning
FlBlacklistHitFallsThrough(payload, t) ==
    /\ fl.pc = "idle"
    /\ fl' = [fl EXCEPT !.pc = "rate", !.payload = payload, !.hit = t]
    /\ UNCHANGED <<coreVars, bs, kv, dt>>

\* evaluate_transaction is called and PASO 1 finds an entry of type t in the
\* MGET reply: the response is built and returned at once (one read, no write,
\* no task created)
FlBlacklistHit(payload, t) ==
    /\ fl.pc = "idle"
    /\ LET response == build_response("t1", "ACTION_BLOCK_PERM", 100, Nil,
                                      <<BlacklistCode(t)>>, MSG_DECLINED)
       IN  fl' = [fl EXCEPT !.pc = "returned", !.payload = payload, !.hit = t,
                            !.response = response, !.returned = response]
    /\ UNCHANGED <<coreVars, bs, kv, dt>>

\* PASO 1b: rate_limit_scorer.score increments both counters, then the tasks
\* of PASO 2 are created and gather is awaited
FlRateLimit ==
    /\ fl.pc = "rate"
    /\ fl' = [fl EXCEPT !.pc = "fanout",
                        !.wrote["rate_limiter"] = @ \cup RateKeys(fl.payload),
                        !.pending = FlTasks(fl.payload)]
    /\ UNCHANGED <<coreVars, bs, kv, dt>>

\* one task of the fan-out runs to its end
FlTaskCompletes(d) ==
    /\ fl.pc = "fanout"
    /\ d \in fl.pending
    /\ fl' = [fl EXCEPT
                !.pending = @ \ {d},
                !.wrote   = [w \in Writers |->
                               IF w = TaskWriter(d) THEN fl.wrote[w] \cup TaskKeys(d, fl.payload)
                               ELSE fl.wrote[w]]]
    /\ UNCHANGED <<coreVars, bs, kv, dt>>

\* time passes while gather is awaited: nothing in evaluate_transaction
\* reacts to it
FlDeadline ==
    /\ fl.pc = "fanout"
    /\ ~fl.late
    /\ fl' = [fl EXCEPT !.late = TRUE]
    /\ UNCHANGED <<coreVars, bs, kv, dt>>

\* the outcomes PASO 3 to PASO 6 hand to _build_response
FlDecisions ==
    {[action |-> "ACTION_APPROVE", risk_score |-> 0, user_message |-> MSG_APPROVED],
     [action |-> "ACTION_BLOCK_PERM", risk_score |-> 100, user_message |-> MSG_DECLINED]}

\* asyncio.gather returns once every task has ended; PASO 3 to PASO 7
FlBuild(d) ==
    /\ fl.pc = "fanout"
    /\ fl.pending = {}
    /\ fl' = [fl EXCEPT !.pc = "built",
                        !.response = build_response("t1", d.action, d.risk_score, Nil,
                                                    <<>>, d.user_message)]
    /\ UNCHANGED <<coreVars, bs, kv, dt>>

\* PASO 8: asyncio.create_task(_background_updates(...)) and return response
FlDispatch ==
    /\ fl.pc = "built"
    /\ fl' = [fl EXCEPT !.pc = "returned", !.returned = fl.response, !.bg = "pipe"]
    /\ UNCHANGED <<coreVars, bs, kv, dt>>

FlApproved == fl.response.action = "ACTION_APPROVE"

\* where _background_updates goes after update_accumulated_risk, after
\* record_successful_transaction and after record_successful_tx
AfterRisk == IF FlApproved THEN "trust" ELSE "audit"

AfterTrust == IF FlIsP2P(fl.payload) THEN "recipients" ELSE "audit"

\* the device pipeline of _background_updates: three SADD with their EXPIRE
\* in one MULTI/EXEC; an error ends the task in its except branch
BgDevicePipe(runs, ok) ==
    /\ fl.bg = "pipe"
    /\ Attempt(runs, ok)
    /\ fl' = [fl EXCEPT
                !.bg = IF ok THEN "risk" ELSE "failed",
                !.wrote["device"] = IF runs > 0 THEN @ \cup DeviceKeys(fl.payload) ELSE @]
    /\ UNCHANGED <<coreVars, bs, kv, dt>>

\* P2PAnalyzer.update_accumulated_risk: GET then SETEX; an error is logged
\* and swallowed there
BgAccumRisk(runs, ok) ==
    /\ fl.bg = "risk"
    /\ Attempt(runs, ok)
    /\ fl' = [fl EXCEPT
                !.bg = AfterRisk,
                !.wrote["p2p"] = IF runs > 0 THEN @ \cup AccumRiskKeys(fl.payload) ELSE @]
    /\ UNCHANGED <<coreVars, bs, kv, dt>>

\* TrustScoreService.record_successful_transaction: INCR and EXPIRE in one
\* MULTI/EXEC; an error is logged and swallowed there
BgTrust(runs, ok) ==
    /\ fl.bg = "trust"
    /\ Attempt(runs, ok)
    /\ fl' = [fl EXCEPT
                !.bg = AfterTrust,
                !.applied["total_successful_tx"] = runs,
                !.wrote["trust"] = IF runs > 0 THEN @ \cup TrustKeys(fl.payload) ELSE @]
    /\ UNCHANGED <<coreVars, bs, kv, dt>>

\* BehaviorEngine.record_successful_tx, first command: HINCRBY creates the
\* hash without an expiry; an error skips the EXPIRE
BgRecipientsIncr(runs, ok) ==
    /\ fl.bg = "recipients"
    /\ Attempt(runs, ok)
    /\ fl' = [fl EXCEPT
                !.bg = IF ok THEN "recipients_ttl" ELSE "audit",
                !.applied["recipients"] = runs,
                !.wrote["behavior"] = IF runs > 0 THEN @ \cup BehaviorKeys(fl.payload) ELSE @,
                !.bare = IF runs > 0 THEN @ \cup BehaviorKeys(fl.payload) ELSE @]
    /\ UNCHANGED <<coreVars, bs, kv, dt>>

\* BehaviorEngine.record_successful_tx, second command: EXPIRE
BgRecipientsExpire(runs, ok) ==
    /\ fl.bg = "recipients_ttl"
    /\ Attempt(runs, ok)
    /\ fl' = [fl EXCEPT
                !.bg = "audit",
                !.bare = IF runs > 0 THEN @ \ BehaviorKeys(fl.payload) ELSE @]
    /\ UNCHANGED <<coreVars, bs, kv, dt>>

\* AuditRepository.save_evaluation: one INSERT, an error is logged and
\* swallowed there
BgAudit(ok) ==
    /\ fl.bg = "audit"
    /\ fl' = [fl EXCEPT !.bg = "done", !.applied["audit"] = IF ok THEN 1 ELSE 0]
    /\ UNCHANGED <<coreVars, bs, kv, dt>>

(***************************************************************************)
(* _build_response applied to drawn arguments                              *)
(***************************************************************************)
SignCalls == {"first", "second"}

SignTxIds == {"t1", "t2"}

\* arguments of _build_response: two actions with the scores that
\* _determine_action pairs them with, three code lists, two latencies
BsInputs ==
    [evaluation_id : SignTxIds,
     action        : {"ACTION_APPROVE", "ACTION_BLOCK_PERM"},
     risk_score    : {0, 100},
     challenge     : {Nil},
     reason_codes  : {<<>>, <<BlacklistCode("user")>>,
                      <<Code(<<"ACCOUNT", "AGE", "NEW">>), TrustCode(-25)>>},
     user_message  : {MSG_APPROVED, MSG_DECLINED},
     processing_ms : {1, 2}]

NoBs == [pc |-> "idle",
         in |-> [evaluation_id |-> Nil, action |-> Nil, risk_score |-> 0, challenge |-> Nil,
                 reason_codes |-> <<>>, user_message |-> Nil, processing_ms |-> 0],
         out |-> NoOutcome, response_time_ms |-> 0]

\* evaluate_transaction (either exit) calls _build_response on its arguments
BuildResponse(c) ==
    LET in == bs[c].in
    IN  /\ bs[c].pc = "input"
        /\ bs' = [bs EXCEPT ![c].pc  = "done",
                            ![c].out = build_response(in.evaluation_id, in.action,
                                                      in.risk_score, in.challenge,
                                                      in.reason_codes, in.user_message),
                            ![c].response_time_ms = in.processing_ms]
        /\ UNCHANGED <<coreVars, kv, fl, dt>>

(***************************************************************************)
(* The clock, and IPHistoryAnalyzer.check called by concurrent evaluations *)
(* of one user                                                             *)
(***************************************************************************)
DtCalls   == {"first", "second"}
Countries == {"MX", "US"}

\* GeoEnrichment: the address a request comes from decides its country
IpOf(country) == IF country = "MX" THEN "189.0.0.1" ELSE "8.8.8.8"

\* the seconds by which the clock advances in one step
ClockSteps == {299, 300, 1799, 1800, 86400}

USER_IP_TTL == 86400

\* ip_history:user:{uid}: "{ip}|{country}|{ts}", and when Redis deletes it
NoIpRec == [ip |-> Nil, country |-> Nil, ts |-> 0, exp |-> 0]

\* history: the arguments and the time.time() of a completed check
NoIpSeen == [ip |-> Nil, country |-> Nil, ts |-> 0]

NoIpResult == [penalty |-> 0, reason_codes |-> <<>>, override_block |-> FALSE]

\* the country jump is an override up to and including the fifth minute
IpJumpUpTo5(raw, ip_country, now) ==
    IF raw = NoIpRec \/ raw.country = ip_country THEN NoIpResult
    ELSE IF now - raw.ts <= 5 * 60
         THEN [penalty |-> 50, reason_codes |-> <<"IMPOSSIBLE_IP_JUMP_5MIN">>,
               override_block |-> TRUE]
         ELSE IF now - raw.ts < 30 * 60
              THEN [penalty |-> 25, reason_codes |-> <<"IP_COUNTRY_JUMP_30MIN">>,
                    override_block |-> FALSE]
              ELSE NoIpResult

\* check, from the reply of GET to the SETEX: minutes = (now - prev_ts) / 60
IpJump(raw, ip_country, now) ==
    IF raw = NoIpRec \/ raw.country = ip_country THEN NoIpResult
    ELSE IF now - raw.ts < 5 * 60
         THEN [penalty |-> 50, reason_codes |-> <<"IMPOSSIBLE_IP_JUMP_5MIN">>,
               override_block |-> TRUE]
         ELSE IF now - raw.ts < 30 * 60
              THEN [penalty |-> 25, reason_codes |-> <<"IP_COUNTRY_JUMP_30MIN">>,
                    override_block |-> FALSE]
              ELSE NoIpResult

\* redis.setex(key, _USER_IP_TTL, f"{ip_address}|{ip_country}|{now}") at time `at`
IpRecord(ip_address, ip_country, now, at) ==
    [ip |-> ip_address, country |-> ip_country, ts |-> now, exp |-> at + USER_IP_TTL]

\* a call of check: its arguments, the time.time() it took, its result; prev
\* is history: the record of the check that had completed last when it read
NoIhCall == [pc |-> "idle", ip_address |-> Nil, ip_country |-> Nil, now |-> 0,
             result |-> NoIpResult, prev |-> NoIpSeen]

\* store: the key in Redis; out: the call that returned last; last is
\* history: the record of the check that completed last; clean is history:
\* no command on the key has failed
NoIh == [store |-> NoIpRec, call |-> [c \in DtCalls |-> NoIhCall], out |-> NoIhCall,
         last |-> NoIpSeen, clean |-> TRUE]

\* check up to the reply of GET: ok = FALSE, the command raised and check
\* returns its empty result without writing
IhCheckGet(c, ip_address, ip_country, ok) ==
    LET call == [pc         |-> IF ok THEN "setex" ELSE "done",
                 ip_address |-> ip_address,
                 ip_country |-> ip_country,
                 now        |-> dt.now,
                 result     |-> IF ok THEN IpJump(dt.ih.store, ip_country, dt.now)
                                ELSE NoIpResult,
                 prev       |-> dt.ih.last]
    IN  /\ dt.ih.call[c].pc = "idle"
        /\ dt.calls < MaxDtCalls
        /\ dt' = [dt EXCEPT
                    !.calls      = @ + 1,
                    !.ih.call[c] = IF ok THEN call ELSE @,
                    !.ih.out     = IF ok THEN @ ELSE call,
                    !.ih.clean   = @ /\ ok]
        /\ UNCHANGED restVars

\* the SETEX of check and its return: applied = FALSE, the command raised
\* before Redis ran it
IhCheckSetex(c, applied) ==
    LET call == dt.ih.call[c]
        rec  == IpRecord(call.ip_address, call.ip_country, call.now, dt.now)
    IN  /\ call.pc = "setex"
        /\ dt' = [dt EXCEPT
                    !.ih.call[c] = NoIhCall,
                    !.ih.out     = [call EXCEPT !.pc = "done"],
                    !.ih.store   = IF applied THEN rec ELSE @,
                    !.ih.last    = [ip |-> call.ip_address, country |-> call.ip_country,
                                    ts |-> call.now],
                    !.ih.clean   = @ /\ applied]
        /\ UNCHANGED restVars

(***************************************************************************)
(* GeoAnalyzer: positions, countries, distances                            *)
(***************************************************************************)
\* the GPS positions of the payloads: (0.0, 0.0), Mexico City, New York
Places == {"ZERO", "CDMX", "NYC"}

\* the countries GeoEnrichment gives to the address of a request
GeoIpCountries == {"MX", "RU"}

\* the country of issue of the card
BinCountries == {"MX"}

HIGH_RISK_COUNTRIES ==
    {"AF", "AL", "BB", "BF", "BJ", "CD", "CF", "CI", "CM", "DJ", "ET", "GH", "GN", "GW",
     "HT", "IR", "KH", "KP", "LA", "LB", "LY", "ML", "MM", "MR", "MZ", "NE", "NG", "PH",
     "PK", "RU", "SC", "SN", "SO", "SS", "SY", "TG", "TN", "TT", "TZ", "UG", "VN", "VU",
     "YE", "ZW"}

PENALTY_TRIPLE_MISMATCH      == 25
PENALTY_DUAL_MISMATCH        == 15
PENALTY_HIGH_RISK_COUNTRY    == 20
PENALTY_GPS_IP_DISTANCE      == 10
PENALTY_IMPOSSIBLE_TRAVEL    == 40
PENALTY_NEW_COUNTRY          == 15
PENALTY_GPS_OBFUSCATED       == 50
REDUCTION_TRAVELER_MODE      == 0 - 30
REDUCTION_COUNTRY_IN_HISTORY == 0 - 10
MAX_FLIGHT_SPEED_KMH         == 900
AIRPORT_BUFFER_HOURS         == 3
MIN_DISTANCE_FOR_CHECK       == 100
LAST_TX_TTL_DAYS             == 30
HISTORY_MAX_COUNTRIES        == 20
HISTORY_TTL_DAYS             == 90
GPS_IP_MAX_KM                == 500

\* _approximate_country_from_coords: the boxes of MX, US and ES
approximate_country_from_coords(place) ==
    CASE place = "CDMX" -> "MX"
      [] place = "NYC"  -> "US"
      [] OTHER          -> Nil

\* _haversine in metres, between the positions and the centroids that
\* _get_country_centroid gives for a country code
haversine(a, b) ==
    CASE a = b                      -> 0
      [] {a, b} = {"CDMX", "NYC"}   -> 3359383
      [] {a, b} = {"CDMX", "ZERO"}  -> 10964803
      [] {a, b} = {"NYC", "ZERO"}   -> 8667068
      [] {a, b} = {"CDMX", "MX"}    -> 585937
      [] {a, b} = {"CDMX", "US"}    -> 1991387
      [] {a, b} = {"CDMX", "RU"}    -> 10753729
      [] {a, b} = {"NYC", "MX"}     -> 3265637
      [] {a, b} = {"NYC", "US"}     -> 1915836
      [] {a, b} = {"NYC", "RU"}     -> 8646710

\* f"GPS_IP_DISTANCE_{int(distance_km)}KM"
GpsIpDistanceCode(place, country) ==
    CASE place = "CDMX" /\ country = "MX" -> "GPS_IP_DISTANCE_585KM"
      [] place = "CDMX" /\ country = "US" -> "GPS_IP_DISTANCE_1991KM"
      [] place = "CDMX" /\ country = "RU" -> "GPS_IP_DISTANCE_10753KM"
      [] place = "NYC"  /\ country = "MX" -> "GPS_IP_DISTANCE_3265KM"
      [] place = "NYC"  /\ country = "US" -> "GPS_IP_DISTANCE_1915KM"
      [] place = "NYC"  /\ country = "RU" -> "GPS_IP_DISTANCE_8646KM"

NewCountryCode(country) ==
    CASE country = "MX" -> "NEW_COUNTRY_MX"
      [] country = "US" -> "NEW_COUNTRY_US"
      [] country = "RU" -> "NEW_COUNTRY_RU"

KnownCountryCode(country) ==
    CASE country = "MX" -> "KNOWN_COUNTRY_REDUCTION_MX"
      [] country = "US" -> "KNOWN_COUNTRY_REDUCTION_US"
      [] country = "RU" -> "KNOWN_COUNTRY_REDUCTION_RU"

NoGeoResult == [score |-> 0, reason_codes |-> <<>>, impossible_travel_detected |-> FALSE,
                traveler_mode_active |-> FALSE, is_new_country |-> FALSE]

\* result.score += pts; result.reason_codes.append(code)
GeoAdd(result, pts, code) ==
    [result EXCEPT !.score = @ + pts, !.reason_codes = Append(@, code)]

\* CHECK 2 of analyze: the countries of the address, the GPS and the BIN
CheckMismatch(result, ip_country, gps_country, bin_country) ==
    LET countries == {ip_country, gps_country, bin_country} \ {Nil}
    IN  IF Cardinality(countries) = 3
        THEN GeoAdd(result, PENALTY_TRIPLE_MISMATCH, "TRIPLE_COUNTRY_MISMATCH")
        ELSE IF Cardinality(countries) = 2 /\ ip_country # bin_country
             THEN GeoAdd(result, PENALTY_DUAL_MISMATCH, "DUAL_COUNTRY_MISMATCH")
             ELSE result

\* CHECK 3 of analyze: the first of the two countries on the FATF list
CheckHighRisk(result, ip_country, gps_country) ==
    IF ip_country \in HIGH_RISK_COUNTRIES \/ gps_country \in HIGH_RISK_COUNTRIES
    THEN GeoAdd(result, PENALTY_HIGH_RISK_COUNTRY, "HIGH_RISK_COUNTRY_RU")
    ELSE result

\* CHECK 4 of analyze: the GPS more than 500 km from the centroid of the
\* country of the address
CheckGpsIpDistance(result, place, ip_country) ==
    IF haversine(place, ip_country) > GPS_IP_MAX_KM * 1000
    THEN GeoAdd(result, PENALTY_GPS_IP_DISTANCE, GpsIpDistanceCode(place, ip_country))
    ELSE result

\* geo:user:{uid}:last_tx, and when Redis deletes it
NoLastTx == [place |-> Nil, country |-> Nil, ts |-> 0, exp |-> 0]

\* a leg of less than 100 km is checked like any other
check_impossible_travel_any_distance(raw, place, current_country, now) ==
    /\ raw # NoLastTx
    /\ raw.country # current_country
    /\ (now - raw.ts) * ((MAX_FLIGHT_SPEED_KMH * 1000) \div SECONDS_1H)
           < haversine(raw.place, place) + AIRPORT_BUFFER_HOURS * MAX_FLIGHT_SPEED_KMH * 1000

\* _check_impossible_travel on the reply of GET: elapsed_hours <
\* distance_km / 900 + 3, in metres and seconds
check_impossible_travel(raw, place, current_country, now) ==
    /\ raw # NoLastTx
    /\ raw.country # current_country
    /\ haversine(raw.place, place) >= MIN_DISTANCE_FOR_CHECK * 1000
    /\ (now - raw.ts) * ((MAX_FLIGHT_SPEED_KMH * 1000) \div SECONDS_1H)
           < haversine(raw.place, place) + AIRPORT_BUFFER_HOURS * MAX_FLIGHT_SPEED_KMH * 1000

\* the data of _update_last_location and the expiry of its SETEX
LastTx(place, country, now) ==
    [place |-> place, country |-> country, ts |-> now,
     exp |-> now + SECONDS_24H * LAST_TX_TTL_DAYS]

\* geo:user:{uid}:country_history: json.dumps(list(history)), read back as a
\* set, and when Redis deletes it
NoHistory == [countries |-> {}, exp |-> 0]

\* list(history)[-HISTORY_MAX_COUNTRIES:] of a set of 21: all but the first
\* in the iteration order of the set, which follows the hashes of the
\* strings; dropped is the country that comes first
Evict(history, dropped) ==
    IF Cardinality(history) > HISTORY_MAX_COUNTRIES THEN history \ {dropped} ELSE history

\* the countries that may come first in the iteration order
Droppable(history) ==
    IF Cardinality(history) > HISTORY_MAX_COUNTRIES THEN history ELSE {Nil}

\* geo:user:{uid}:traveler_mode, and when Redis deletes it
NoTraveler == [destination_countries |-> {}, expires_ts |-> 0, exp |-> 0]

\* the declared trip covers every country
TravelerMatchesAnywhere(raw, ip_country, now) ==
    /\ raw # NoTraveler
    /\ raw.expires_ts > now

\* _get_traveler_mode and _country_matches_traveler on the reply of GET
TravelerMatches(raw, ip_country, now) ==
    /\ raw # NoTraveler
    /\ raw.expires_ts > now
    /\ ip_country \in raw.destination_countries

(***************************************************************************)
(* GeoAnalyzer.analyze, one action per cache command, called by concurrent *)
(* evaluations of one user; set_traveler_mode and cancel_traveler_mode     *)
(***************************************************************************)
\* history: the position an analysis has written, the declared trip
NoGeoSeen == [place |-> Nil, country |-> Nil, ts |-> 0]
NoDecl    == [destination_countries |-> {}, until |-> 0]

\* a call of analyze: its arguments, its result so far, the history read by
\* _add_country_to_history; at, prev, decl and stored are history: when it
\* was called, the position written last when it read last_tx, the trip
\* declared when it read traveler_mode, the countries held by the key when
\* it read country_history
NoGeoCall == [pc |-> "idle", place |-> Nil, ip_country |-> Nil, bin_country |-> Nil,
              at |-> 0,
              result |-> NoGeoResult, history |-> {},
              prev |-> NoGeoSeen, decl |-> NoDecl, stored |-> {}]

\* the three keys of the user; the calls in progress; out: the call that
\* has just returned, until the next call or step of the clock; last, trip, used and clean are history: the position
\* written last, the trip declared and not cancelled, the countries in the
\* order of their last analysis, no cache command has failed
NoGeo == [last_tx |-> NoLastTx, history |-> NoHistory, traveler |-> NoTraveler,
          call |-> [c \in DtCalls |-> NoGeoCall], out |-> NoGeoCall,
          last |-> NoGeoSeen, trip |-> NoDecl, used |-> <<>>, clean |-> TRUE]

\* CHECK 0: latitude == 0.0 and longitude == 0.0; the position is written
\* and the result returned
GeoObfuscated(c, ip_country, applied) ==
    LET call == [NoGeoCall EXCEPT
                   !.pc = "done", !.place = "ZERO", !.ip_country = ip_country,
                   !.at = dt.now,
                   !.result = GeoAdd(NoGeoResult, PENALTY_GPS_OBFUSCATED,
                                     "GPS_OBFUSCATED_ZERO_COORDS")]
    IN  /\ dt.geo.call[c].pc = "idle"
        /\ dt.calls < MaxDtCalls
        /\ dt' = [dt EXCEPT
                    !.calls       = @ + 1,
                    !.geo.out     = call,
                    !.geo.last_tx = IF applied THEN LastTx("ZERO", ip_country, dt.now) ELSE @,
                    !.geo.last    = [place |-> "ZERO", country |-> ip_country, ts |-> dt.now],
                    !.geo.clean   = @ /\ applied]
        /\ UNCHANGED restVars

\* CHECK 1, the GET of traveler_mode, and on a miss CHECK 2, 3 and 4, which
\* read no key
GeoTraveler(c, place, ip_country, bin_country, ok) ==
    LET hit    == ok /\ TravelerMatches(dt.geo.traveler, ip_country, dt.now)
        gps    == approximate_country_from_coords(place)
        active == [GeoAdd(NoGeoResult, REDUCTION_TRAVELER_MODE, "TRAVELER_MODE_ACTIVE")
                     EXCEPT !.traveler_mode_active = TRUE, !.score = Max(@, 0)]
        passed == CheckGpsIpDistance(
                      CheckHighRisk(
                          CheckMismatch(NoGeoResult, ip_country, gps, bin_country),
                          ip_country, gps),
                      place, ip_country)
    IN  /\ dt.geo.call[c].pc = "idle"
        /\ dt.calls < MaxDtCalls
        /\ place # "ZERO"
        /\ dt' = [dt EXCEPT
                    !.calls       = @ + 1,
                    !.geo.out     = NoGeoCall,
                    !.geo.call[c] = [NoGeoCall EXCEPT
                                       !.pc = IF hit THEN "update_last" ELSE "travel",
                                       !.place = place, !.ip_country = ip_country,
                                       !.bin_country = bin_country, !.at = dt.now,
                                       !.result = IF hit THEN active ELSE passed,
                                       !.decl = dt.geo.trip],
                    !.geo.clean   = @ /\ ok]
        /\ UNCHANGED restVars

\* CHECK 5: the GET of last_tx in _check_impossible_travel
GeoImpossibleTravel(c, ok) ==
    LET call       == dt.geo.call[c]
        impossible == ok /\ check_impossible_travel(dt.geo.last_tx, call.place,
                                                    call.ip_country, dt.now)
    IN  /\ call.pc = "travel"
        /\ dt' = [dt EXCEPT
                    !.geo.call[c].pc     = "history",
                    !.geo.call[c].prev   = dt.geo.last,
                    !.geo.call[c].result =
                        IF impossible
                        THEN [GeoAdd(@, PENALTY_IMPOSSIBLE_TRAVEL, "IMPOSSIBLE_TRAVEL_DETECTED")
                                EXCEPT !.impossible_travel_detected = TRUE]
                        ELSE @,
                    !.geo.clean          = @ /\ ok]
        /\ UNCHANGED restVars

\* the GET of country_history in analyze: _get_country_history returns an
\* empty set when the command raises
GeoCountryHistory(c, ok) ==
    LET call            == dt.geo.call[c]
        country_history == IF ok THEN dt.geo.history.countries ELSE {}
        is_new_country  == call.ip_country \notin country_history
    IN  /\ call.pc = "history"
        /\ dt' = [dt EXCEPT
                    !.geo.call[c].pc     = "update_last",
                    !.geo.call[c].stored = dt.geo.history.countries,
                    !.geo.call[c].result =
                        IF is_new_country
                        THEN [GeoAdd(@, PENALTY_NEW_COUNTRY, NewCountryCode(call.ip_country))
                                EXCEPT !.is_new_country = TRUE]
                        ELSE GeoAdd(@, REDUCTION_COUNTRY_IN_HISTORY,
                                    KnownCountryCode(call.ip_country)),
                    !.geo.clean          = @ /\ ok]
        /\ UNCHANGED restVars

\* the SETEX of _update_last_location
GeoUpdateLast(c, applied) ==
    LET call == dt.geo.call[c]
    IN  /\ call.pc = "update_last"
        /\ dt' = [dt EXCEPT
                    !.geo.call[c].pc = "add_get",
                    !.geo.last_tx    = IF applied
                                       THEN LastTx(call.place, call.ip_country, dt.now)
                                       ELSE @,
                    !.geo.last       = [place |-> call.place, country |-> call.ip_country,
                                        ts |-> dt.now],
                    !.geo.clean      = @ /\ applied]
        /\ UNCHANGED restVars

\* the GET of _add_country_to_history, and history.add(country)
GeoAddGet(c, ok) ==
    LET call == dt.geo.call[c]
    IN  /\ call.pc = "add_get"
        /\ dt' = [dt EXCEPT
                    !.geo.call[c].pc      = "add_set",
                    !.geo.call[c].history =
                        (IF ok THEN dt.geo.history.countries ELSE {}) \cup {call.ip_country},
                    !.geo.clean           = @ /\ ok]
        /\ UNCHANGED restVars

\* analyze from its last command to its return: the clamp is on the path
\* that has gone through every check
GeoReturn(result) ==
    IF result.traveler_mode_active THEN result
    ELSE [result EXCEPT !.score = Max(0, Min(100, @))]

\* the cut to 20 countries and the SETEX of _add_country_to_history; analyze
\* returns
GeoAddSet(c, applied, dropped) ==
    LET call == dt.geo.call[c]
    IN  /\ call.pc = "add_set"
        /\ dropped \in Droppable(call.history)
        /\ dt' = [dt EXCEPT
                    !.geo.call[c] = NoGeoCall,
                    !.geo.out     = [call EXCEPT !.pc = "done",
                                                 !.result = GeoReturn(call.result)],
                    !.geo.history = IF applied
                                    THEN [countries |-> Evict(call.history, dropped),
                                          exp |-> dt.now + SECONDS_24H * HISTORY_TTL_DAYS]
                                    ELSE @,
                    !.geo.used    = Append(SelectSeq(@, LAMBDA x : x # call.ip_country),
                                           call.ip_country),
                    !.geo.clean   = @ /\ applied]
        /\ UNCHANGED restVars

\* set_traveler_mode: Redis refuses an expiry that is not positive
GeoSetTraveler(destination_countries, duration_days, applied) ==
    LET expires_ts == dt.now + SECONDS_24H * duration_days
    IN  /\ dt.calls < MaxDtCalls
        /\ dt' = [dt EXCEPT
                    !.calls        = @ + 1,
                    !.geo.out      = NoGeoCall,
                    !.geo.traveler =
                        IF applied /\ duration_days > 0
                        THEN [destination_countries |-> destination_countries,
                              expires_ts |-> expires_ts, exp |-> expires_ts]
                        ELSE @,
                    !.geo.trip     = IF duration_days > 0
                                     THEN [destination_countries |-> destination_countries,
                                           until |-> expires_ts]
                                     ELSE @,
                    !.geo.clean    = @ /\ (applied \/ duration_days <= 0)]
        /\ UNCHANGED restVars

\* cancel_traveler_mode
GeoCancelTraveler(applied) ==
    /\ dt.calls < MaxDtCalls
    /\ dt' = [dt EXCEPT
                !.calls        = @ + 1,
                !.geo.out      = NoGeoCall,
                !.geo.traveler = IF applied THEN NoTraveler ELSE @,
                !.geo.trip     = NoDecl,
                !.geo.clean    = @ /\ applied]
    /\ UNCHANGED restVars

(***************************************************************************)
(* RateLimitScorer.score against the clock: the requests of one user from  *)
(* one address                                                             *)
(***************************************************************************)
WINDOW_SECONDS == 60
USER_WINDOW    == 300

\* rate:ip:{ip} and rate:user:{uid}: the counter and when Redis deletes it
NoCounter == [n |-> 0, exp |-> 0]

\* INCR key; EXPIRE key seconds: the expiry is set again on every request
IncrExpire(counter, seconds, now) == [n |-> counter.n + 1, exp |-> now + seconds]

\* the two keys; out: the request scored last; times is history: when each
\* request that reached Redis was made
NoRateWindow == [ip |-> NoCounter, user |-> NoCounter, times |-> <<>>,
                 out |-> [pc |-> "idle", ok |-> FALSE, result |-> NoRate]]

\* score: the pipeline of four commands is one MULTI/EXEC; ok = FALSE, the
\* pipeline raised and score returns (0, []); applied, Redis ran it
RateScore(ok, applied) ==
    LET ip   == IncrExpire(dt.rate.ip, WINDOW_SECONDS, dt.now)
        user == IncrExpire(dt.rate.user, USER_WINDOW, dt.now)
    IN  /\ Len(dt.rate.times) < MaxRequests
        /\ ok => applied
        /\ dt' = [dt EXCEPT
                    !.rate.ip    = IF applied THEN ip ELSE @,
                    !.rate.user  = IF applied THEN user ELSE @,
                    !.rate.times = IF applied THEN Append(@, dt.now) ELSE @,
                    !.rate.out   = [pc |-> "done", ok |-> ok,
                                    result |-> IF ok THEN RatePenalty(ip.n, user.n)
                                               ELSE NoRate]]
        /\ UNCHANGED restVars

(***************************************************************************)
(* Start-up of the service and the weights of the aggregation              *)
(***************************************************************************)
\* the class attributes W1_VELOCITY .. W5_EXTERNAL in hundredths: as
\* shipped, and with W1_VELOCITY set to 0.35
ShippedWeights == <<W1_VELOCITY, W2_DEVICE, W3_GEO, W4_BEHAVIOR, W5_EXTERNAL>>
WeightConfigs  == {ShippedWeights, [ShippedWeights EXCEPT ![1] = 35]}

\* the scores of the five modules
ModuleScores == [1..5 -> {0, 50, 100}]

\* PASO 3: W1 * V + W2 * D + W3 * G + W4 * B + W5 * E, in hundredths
weighted_score(w, scores) ==
    w[1] * scores[1] + w[2] * scores[2] + w[3] * scores[3] + w[4] * scores[4]
        + w[5] * scores[5]

\* the process: down or serving, its weights, the weighted score it
\* computed last (in hundredths) and the score it gave
NoBoot == [pc |-> "down", weights |-> ShippedWeights, weighted |-> 0, final_score |-> 0]

\* lifespan up to its yield: Redis is connected; nothing reads the weights
Lifespan ==
    /\ dt.boot.pc = "down"
    /\ dt' = [dt EXCEPT !.boot.pc = "serving"]
    /\ UNCHANGED restVars

\* PASO 3 of an evaluation, with neither P2P penalty nor trust reduction
ServeWeighted(scores) ==
    /\ dt.boot.pc = "serving"
    /\ dt' = [dt EXCEPT
                !.boot.weighted    = weighted_score(dt.boot.weights, scores),
                !.boot.final_score = ClampHundredths(weighted_score(dt.boot.weights, scores))]
    /\ UNCHANGED restVars

\* lifespan after its yield
Shutdown ==
    /\ dt.boot.pc = "serving"
    /\ dt' = [dt EXCEPT !.boot.pc = "down"]
    /\ UNCHANGED restVars

(***************************************************************************)
(* Card testing (services/card_testing_detector.py): the list of amounts   *)
(* of one (device, BIN) pair and the counter of the BIN                     *)
(***************************************************************************)
PROBE_THRESHOLD  == 3
PROBE_MAX_AMOUNT == 10
LARGE_THRESHOLD  == 200
RAPID_THRESHOLD  == 5
AMOUNTS_KEPT     == 10

\* amounts on both sides of the two thresholds
CtAmounts == {10, 11, 199, 200}

NoCtResult == [penalty |-> 0, reason_codes |-> <<>>]

\* an entry of the list: the amount (str(amount), read back with float) and,
\* for the properties only, the number of the call that pushed it (0: a
\* push from before the run)
CtEntry(amount, by) == [amount |-> amount, by |-> by]

\* LPUSH key amount; LTRIM key 0 9
LPushTrim(list, entry) == SubSeq(<<entry>> \o list, 1, Min(Len(list) + 1, AMOUNTS_KEPT))

\* LRANGE key 1 -1
LRangeFrom1(list) == IF list = <<>> THEN <<>> ELSE Tail(list)

\* sum(1 for a in prev_amounts if a <= _PROBE_MAX_AMOUNT)
MicroCount(prev_amounts) ==
    Cardinality({i \in 1..Len(prev_amounts) : prev_amounts[i].amount <= PROBE_MAX_AMOUNT})

\* Regla 1
RapidRule(result, rapid_count) ==
    IF rapid_count >= RAPID_THRESHOLD
    THEN [penalty |-> result.penalty + 35,
          reason_codes |-> Append(result.reason_codes,
                                  [code |-> "RAPID_BIN_PROBE_IN_10MIN", n |-> rapid_count])]
    ELSE result

\* Regla 2, once the history is read
PatternRule(result, prev_amounts) ==
    IF Len(prev_amounts) >= PROBE_THRESHOLD /\ MicroCount(prev_amounts) >= PROBE_THRESHOLD
    THEN [penalty |-> result.penalty + 40,
          reason_codes |-> Append(result.reason_codes,
                                  [code |-> "CARD_TESTING_PATTERN_PROBES",
                                   n |-> MicroCount(prev_amounts)])]
    ELSE result

NoCtCall == [pc |-> "idle", id |-> 0, amount |-> 0, result |-> NoCtResult, own |-> <<>>]

\* what a check that has returned was called with, returned and read
NoCtOut == [pc |-> "idle", id |-> 0, amount |-> 0, result |-> NoCtResult, own |-> <<>>,
            read |-> <<>>, ok |-> FALSE]

NoCt == [amounts |-> <<>>, rate |-> 0, call |-> [c \in DtCalls |-> NoCtCall],
         out |-> NoCtOut]

CtReturn(call, result, read, ok) ==
    [pc |-> "done", id |-> call.id, amount |-> call.amount, result |-> result,
     own |-> call.own, read |-> read, ok |-> ok]

\* check, first part: the pipeline (LPUSH, LTRIM, EXPIRE, INCR, EXPIRE) is
\* one MULTI/EXEC; then Regla 1; a check of a small amount returns here.
\* ok = FALSE: the pipeline raised (applied: Redis had run it)
CtCheckPipeline(c, amount, ok, applied) ==
    LET id      == dt.calls + 1
        amounts == LPushTrim(dt.ct.amounts, CtEntry(amount, id))
        result  == RapidRule(NoCtResult, dt.ct.rate + 1)
        call    == [pc |-> "lrange", id |-> id, amount |-> amount, result |-> result,
                    own |-> LRangeFrom1(amounts)]
    IN  /\ dt.ct.call[c].pc = "idle"
        /\ dt.calls < MaxDtCalls
        /\ ok => applied
        /\ dt' = [dt EXCEPT
                    !.calls      = id,
                    !.ct.amounts = IF applied THEN amounts ELSE @,
                    !.ct.rate    = IF applied THEN @ + 1 ELSE @,
                    !.ct.call[c] = IF ok /\ amount >= LARGE_THRESHOLD THEN call ELSE @,
                    !.ct.out     = IF ~ok THEN CtReturn(call, NoCtResult, <<>>, FALSE)
                                   ELSE IF amount >= LARGE_THRESHOLD THEN NoCtOut
                                   ELSE CtReturn(call, result, <<>>, TRUE)]
        /\ UNCHANGED restVars

\* check, second part: LRANGE key 1 -1 and Regla 2; ok = FALSE: LRANGE raised
\* and check returns the result as Regla 1 left it
CtCheckLrange(c, ok) ==
    LET call == dt.ct.call[c]
        prev_amounts == LRangeFrom1(dt.ct.amounts)
    IN  /\ call.pc = "lrange"
        /\ dt' = [dt EXCEPT
                    !.ct.call[c] = NoCtCall,
                    !.ct.out     = IF ok
                                   THEN CtReturn(call, PatternRule(call.result, prev_amounts),
                                                 dt.ct.amounts, TRUE)
                                   ELSE CtReturn(call, call.result, <<>>, FALSE)]
        /\ UNCHANGED restVars

(***************************************************************************)
(* Time pattern (services/time_pattern_scorer.py): the bitmap of the hours *)
(* of one user and the counter of their requests                           *)
(***************************************************************************)
MIN_TX_BEFORE_PENALIZING == 10

\* the hours of the day the requests of the run arrive at
Hours == {3, 14}

NoTpResult == [penalty |-> 0, reason_codes |-> <<>>]

\* SETBIT key hour 1 that sets nothing
SetBitLost(bitmap, hour) == bitmap

\* SETBIT key hour 1: the bitmap is kept as the set of the offsets of its 1 bits
SetBit(bitmap, hour) == bitmap \cup {hour}

\* BITFIELD key GET u1 hour: the unsigned 1-bit integer at bit offset hour,
\* in a list; the offsets of BITFIELD and of SETBIT count bits the same way
BitfieldGetU1(bitmap, hour) == <<IF hour \in bitmap THEN 1 ELSE 0>>

\* lines 68-84: the penalty from the replies of BITFIELD and GET
TimePenalty(bit_active, tx_count, hour) ==
    LET bit_value == IF Len(bit_active) > 0 THEN bit_active[1] ELSE 0
    IN  IF tx_count >= MIN_TX_BEFORE_PENALIZING /\ bit_value = 0
        THEN [penalty |-> 15,
              reason_codes |-> <<[code |-> "UNUSUAL_HOUR_H_NEVER_ACTIVE", n |-> hour]>>]
        ELSE NoTpResult

\* done: for the properties, the hours at which a score call has run all its
\* commands since the keys were created
NoTpCall == [pc |-> "idle", hour |-> 0, bit_active |-> <<>>, tx_count |-> 0,
             done |-> {}]

NoTpOut == [pc |-> "idle", hour |-> 0, bit_active |-> <<>>, tx_count |-> 0, done |-> {},
            result |-> NoTpResult, clean |-> FALSE, before |-> 0, after |-> 0]

NoTp == [bitmap |-> {}, tx_count |-> 0, done |-> {}, call |-> [c \in DtCalls |-> NoTpCall],
         out |-> NoTpOut]

\* score, first command: BITFIELD; ok = FALSE: it raised, score returns the
\* empty result
TpBitfield(c, hour, ok) ==
    /\ dt.tp.call[c].pc = "idle"
    /\ dt.calls < MaxDtCalls
    /\ LET call == [pc |-> "get", hour |-> hour,
                    bit_active |-> BitfieldGetU1(dt.tp.bitmap, hour), tx_count |-> 0,
                    done |-> dt.tp.done]
       IN  dt' = [dt EXCEPT
                    !.calls      = @ + 1,
                    !.tp.call[c] = IF ok THEN call ELSE @,
                    !.tp.out     = IF ok THEN NoTpOut
                                   ELSE [NoTpOut EXCEPT !.pc = "done", !.hour = hour,
                                                        !.done = dt.tp.done]]
    /\ UNCHANGED restVars

\* score, second command: GET of the counter (int(raw_count), 0 if no key)
TpGet(c, ok) ==
    LET call == dt.tp.call[c]
    IN  /\ call.pc = "get"
        /\ dt' = [dt EXCEPT
                    !.tp.call[c] = IF ok THEN [call EXCEPT !.pc = "pipe",
                                                           !.tx_count = dt.tp.tx_count]
                                   ELSE NoTpCall,
                    !.tp.out     = IF ok THEN @
                                   ELSE [NoTpOut EXCEPT !.pc = "done", !.hour = call.hour,
                                                        !.done = call.done]]
        /\ UNCHANGED restVars

\* score, the penalty and the pipeline (SETBIT, EXPIRE, INCR, EXPIRE: one
\* MULTI/EXEC); ok = FALSE: the pipeline raised (applied: Redis had run it);
\* the result computed before is returned either way
TpPipeline(c, ok, applied) ==
    LET call   == dt.tp.call[c]
        result == TimePenalty(call.bit_active, call.tx_count, call.hour)
    IN  /\ call.pc = "pipe"
        /\ ok => applied
        /\ dt' = [dt EXCEPT
                    !.tp.bitmap   = IF applied THEN SetBit(@, call.hour) ELSE @,
                    !.tp.tx_count = IF applied THEN @ + 1 ELSE @,
                    !.tp.done     = IF ok THEN @ \cup {call.hour} ELSE @,
                    !.tp.call[c]  = NoTpCall,
                    !.tp.out      = [pc |-> "done", hour |-> call.hour,
                                     bit_active |-> call.bit_active,
                                     tx_count |-> call.tx_count, done |-> call.done,
                                     result |-> result, clean |-> ok,
                                     before |-> dt.tp.tx_count,
                                     after |-> IF applied THEN dt.tp.tx_count + 1
                                               ELSE dt.tp.tx_count]]
        /\ UNCHANGED restVars

\* 90 days pass without a request of the user: both keys, whose expiry the
\* same EXEC has set, expire
TpExpire ==
    /\ dt.ticks < MaxTicks
    /\ \A c \in DtCalls : dt.tp.call[c].pc = "idle"
    /\ dt.tp.tx_count > 0
    /\ dt' = [dt EXCEPT !.ticks = @ + 1, !.tp.bitmap = {}, !.tp.tx_count = 0,
                        !.tp.done = {}, !.tp.out = NoTpOut]
    /\ UNCHANGED restVars

(***************************************************************************)
(* P2P analysis (services/p2p_analyzer.py): analyze as its cache commands, *)
(* with the clock; the sets and the volume carry, for the properties only, *)
(* the call and the time of every SADD and INCRBYFLOAT                     *)
(***************************************************************************)
FANOUT_LIMIT_1H       == 5
FANOUT_LIMIT_24H      == 15
FANIN_LIMIT_1H        == 5
FANIN_LIMIT_24H       == 10
SMURFING_DAILY_LIMIT  == 9000
SMURFING_SINGLE_LIMIT == 1000
NEW_ACCOUNT_HOURS     == 48
DRAIN_WINDOW_SEC      == 7200
DRAIN_PCT_THRESHOLD   == 80
PENALTY_NEW_RECIPIENT_ACCOUNT == 20
PENALTY_RECIPIENT_HIGH_RISK   == 15
PENALTY_FANOUT_HIGH           == 30
PENALTY_FANOUT_MEDIUM         == 15
PENALTY_FANIN_HIGH            == 25
PENALTY_FANIN_MEDIUM          == 12
PENALTY_SMURFING              == 35
PENALTY_RAPID_DRAIN           == 40

\* the users of the run; the senders recorded before it are numbered from 11
P2PUsers == {1, 2, 3}

\* the five counters analyze reads and _update_counters writes
P2PCounters == {"fanout_1h", "fanout_24h", "fanin_1h", "fanin_24h", "daily_vol"}

\* the user a counter of a transfer is keyed by
CounterUser(k, sender_id, recipient_id) ==
    IF k \in {"fanin_1h", "fanin_24h"} THEN recipient_id ELSE sender_id

CounterSeconds(k) == IF k \in {"fanout_1h", "fanin_1h"} THEN SECONDS_1H ELSE SECONDS_24H

\* a key that does not exist: a set key holds members, the volume key a sum
NoP2PKey == [members |-> {}, v |-> 0, exp |-> 0]

\* SADD key member; EXPIRE key seconds
SAddExpire(key, member, seconds, id, now) ==
    [key EXCEPT !.members = @ \cup {[member |-> member, amount |-> 0, by |-> id, at |-> now]},
                !.exp = now + seconds]

\* INCRBYFLOAT key amount; EXPIRE key seconds
IncrByFloatExpire(key, amount, seconds, id, now) ==
    [key EXCEPT !.v = @ + amount,
                !.members = @ \cup {[member |-> 0, amount |-> amount, by |-> id, at |-> now]},
                !.exp = now + seconds]

\* SCARD key
SCard(key) == Cardinality({e.member : e \in key.members})

\* _get_set_count and _get_daily_volume: 0 when the command raises
P2PReadValue(k, key, ok) ==
    IF ~ok THEN 0 ELSE IF k = "daily_vol" THEN key.v ELSE SCard(key)

\* the other three reads of the gather (account age, accumulated risk and
\* drain record of the recipient), which no command of analyze writes
P2PProfiles ==
    {[age |-> NoneResult, risk |-> NoneResult, drain |-> NoneResult],
     [age |-> [v |-> 10], risk |-> [v |-> 70], drain |-> NoneResult],
     [age |-> NoneResult, risk |-> NoneResult, drain |-> [elapsed |-> 1800, drained_pct |-> 90]]}

NoP2PResult ==
    [score |-> 0, reason_codes |-> <<>>, is_new_recipient_account |-> FALSE,
     smurfing_detected |-> FALSE, mule_pattern_detected |-> FALSE,
     should_hold_funds |-> FALSE]

P2PCode(code, n, m) == [code |-> code, n |-> n, m |-> m]

P2PAdd(result, points, code) ==
    [result EXCEPT !.score = @ + points, !.reason_codes = Append(@, code)]

\* CHECK 1 and CHECK 2
CheckRecipient(result, profile, amount) ==
    LET r1 == IF ~IsNone(profile.age) /\ profile.age.v < NEW_ACCOUNT_HOURS
              THEN LET a == [P2PAdd(result, PENALTY_NEW_RECIPIENT_ACCOUNT,
                                    P2PCode("RECIPIENT_ACCOUNT_AGE_H", profile.age.v, 0))
                               EXCEPT !.is_new_recipient_account = TRUE]
                   IN  IF amount > 200
                       THEN [a EXCEPT !.should_hold_funds = TRUE,
                                      !.reason_codes =
                                          Append(@, P2PCode("PREVENTIVE_HOLD_NEW_ACCOUNT", 0, 0))]
                       ELSE a
              ELSE result
    IN  IF ~IsNone(profile.risk) /\ profile.risk.v > 60
        THEN P2PAdd(r1, PENALTY_RECIPIENT_HIGH_RISK,
                    P2PCode("RECIPIENT_HIGH_RISK_SCORE", profile.risk.v, 0))
        ELSE r1

\* CHECK 3
CheckFanOut(result, read) ==
    IF read["fanout_1h"] > FANOUT_LIMIT_1H
    THEN P2PAdd(result, PENALTY_FANOUT_HIGH,
                P2PCode("FANOUT_HIGH_1H_RECIPIENTS", read["fanout_1h"], 0))
    ELSE IF read["fanout_24h"] > FANOUT_LIMIT_24H
    THEN P2PAdd(result, PENALTY_FANOUT_MEDIUM,
                P2PCode("FANOUT_MEDIUM_24H_RECIPIENTS", read["fanout_24h"], 0))
    ELSE result

\* CHECK 4
CheckFanIn(result, read) ==
    IF read["fanin_1h"] > FANIN_LIMIT_1H
    THEN [P2PAdd(result, PENALTY_FANIN_HIGH,
                 P2PCode("RECIPIENT_FANIN_HIGH_1H_SENDERS", read["fanin_1h"], 0))
            EXCEPT !.mule_pattern_detected = TRUE]
    ELSE IF read["fanin_24h"] > FANIN_LIMIT_24H
    THEN P2PAdd(result, PENALTY_FANIN_MEDIUM,
                P2PCode("RECIPIENT_FANIN_HIGH_24H_SENDERS", read["fanin_24h"], 0))
    ELSE result

\* CHECK 5
CheckSmurfing(result, read, amount) ==
    IF amount < SMURFING_SINGLE_LIMIT /\ read["daily_vol"] + amount > SMURFING_DAILY_LIMIT
    THEN [P2PAdd(result, PENALTY_SMURFING,
                 P2PCode("SMURFING_DAILY_VOL_TX_AMOUNT", read["daily_vol"] + amount, amount))
            EXCEPT !.smurfing_detected = TRUE]
    ELSE result

\* CHECK 6
CheckDrain(result, profile) ==
    IF /\ ~IsNone(profile.drain)
       /\ profile.drain.elapsed < DRAIN_WINDOW_SEC
       /\ profile.drain.drained_pct > DRAIN_PCT_THRESHOLD
    THEN [P2PAdd(result, PENALTY_RAPID_DRAIN,
                 P2PCode("RAPID_DRAIN_PCT_IN_MIN", profile.drain.drained_pct,
                         profile.drain.elapsed \div 60))
            EXCEPT !.mule_pattern_detected = TRUE, !.should_hold_funds = TRUE]
    ELSE result

\* the six checks and the clamp of the score
P2PChecks(read, profile, amount) ==
    LET r == CheckDrain(CheckSmurfing(CheckFanIn(CheckFanOut(
                 CheckRecipient(NoP2PResult, profile, amount), read), read), read, amount),
                 profile)
    IN  [r EXCEPT !.score = Max(0, Min(100, @))]

\* _update_counters: the ten commands, one MULTI/EXEC
UpdateP2PCounters(keys, sender_id, recipient_id, amount, id, now) ==
    [k \in P2PCounters |->
        [u \in P2PUsers |->
            IF u # CounterUser(k, sender_id, recipient_id) THEN keys[k][u]
            ELSE IF k = "daily_vol"
                 THEN IncrByFloatExpire(keys[k][u], amount, CounterSeconds(k), id, now)
                 ELSE SAddExpire(keys[k][u],
                                 IF k \in {"fanin_1h", "fanin_24h"} THEN sender_id
                                 ELSE recipient_id,
                                 CounterSeconds(k), id, now)]]

NoP2PKeys == [k \in P2PCounters |-> [u \in P2PUsers |-> NoP2PKey]]

NoRead == [k \in P2PCounters |-> 0]

\* seen: for the properties, the calls whose writes the reads of this call met
P2PNoProfile == [age |-> NoneResult, risk |-> NoneResult, drain |-> NoneResult]

NoP2PCall == [pc |-> "idle", id |-> 0, sender_id |-> 0, recipient_id |-> 0, amount |-> 0,
              profile |-> P2PNoProfile,
              pending |-> {}, read |-> NoRead, seen |-> {}, inwin |-> NoRead, clean |-> TRUE]

NoP2POut == [NoP2PCall EXCEPT !.clean = FALSE] @@ [result |-> NoP2PResult]

NoP2P == [keys |-> NoP2PKeys, call |-> [c \in DtCalls |-> NoP2PCall], out |-> NoP2POut]

\* what a counter should answer at `now`: the distinct members added, or the
\* amounts added, within the seconds of its window
CounterInWindow(k, key, now) ==
    LET recent == {e \in key.members : e.at + CounterSeconds(k) > now}
    IN  IF k = "daily_vol"
        THEN LET RECURSIVE Total(_)
                 Total(s) == IF s = {} THEN 0
                             ELSE LET e == CHOOSE x \in s : TRUE
                                  IN  e.amount + Total(s \ {e})
             IN  Total(recent)
        ELSE Cardinality({e.member : e \in recent})

\* analyze that runs _update_counters before the reads of its gather
P2PAnalyzeUpdatesFirst(c, sender_id, recipient_id, amount, profile) ==
    /\ dt.p2p.call[c].pc = "idle"
    /\ dt.calls < MaxAnalyses
    /\ sender_id # recipient_id
    /\ dt' = [dt EXCEPT
                !.calls = @ + 1,
                !.p2p.keys = UpdateP2PCounters(@, sender_id, recipient_id, amount,
                                               dt.calls + 1, dt.now),
                !.p2p.call[c] = [NoP2PCall EXCEPT
                                    !.pc = "reads", !.id = dt.calls + 1,
                                    !.sender_id = sender_id,
                                    !.recipient_id = recipient_id, !.amount = amount,
                                    !.profile = profile, !.pending = P2PCounters],
                !.p2p.out = NoP2POut]
    /\ UNCHANGED restVars

\* analyze is called: the gather creates the eight reads
P2PAnalyze(c, sender_id, recipient_id, amount, profile) ==
    /\ dt.p2p.call[c].pc = "idle"
    /\ dt.calls < MaxAnalyses
    /\ sender_id # recipient_id
    /\ dt' = [dt EXCEPT
                !.calls = @ + 1,
                !.p2p.call[c] = [NoP2PCall EXCEPT
                                    !.pc = "reads", !.id = dt.calls + 1,
                                    !.sender_id = sender_id,
                                    !.recipient_id = recipient_id, !.amount = amount,
                                    !.profile = profile, !.pending = P2PCounters],
                !.p2p.out = NoP2POut]
    /\ UNCHANGED restVars

\* one read of the gather reaches Redis (SCARD or GET); ok = FALSE: it raised
\* and the helper answers 0
P2PRead(c, k, ok) ==
    LET call == dt.p2p.call[c]
        key  == dt.p2p.keys[k][CounterUser(k, call.sender_id, call.recipient_id)]
    IN  /\ call.pc = "reads"
        /\ k \in call.pending
        /\ dt' = [dt EXCEPT
                    !.p2p.call[c].pending = @ \ {k},
                    !.p2p.call[c].read[k] = P2PReadValue(k, key, ok),
                    !.p2p.call[c].inwin[k] = CounterInWindow(k, key, dt.now),
                    !.p2p.call[c].seen = @ \cup {e.by : e \in key.members},
                    !.p2p.call[c].clean = @ /\ ok,
                    !.p2p.out = NoP2POut]
        /\ UNCHANGED restVars

\* the gather has returned: the six checks, then _update_counters (ok = FALSE:
\* the pipeline raised, which is logged; applied: Redis had run it), and
\* analyze returns the result
P2PScoreAndUpdate(c, ok, applied) ==
    LET call == dt.p2p.call[c]
    IN  /\ call.pc = "reads"
        /\ call.pending = {}
        /\ ok => applied
        /\ dt' = [dt EXCEPT
                    !.p2p.keys = IF applied
                                 THEN UpdateP2PCounters(@, call.sender_id, call.recipient_id,
                                                        call.amount, call.id, dt.now)
                                 ELSE @,
                    !.p2p.call[c] = NoP2PCall,
                    !.p2p.out = [call EXCEPT !.pc = "done", !.clean = @ /\ ok] @@
                                [result |-> P2PChecks(call.read, call.profile, call.amount)]]
        /\ UNCHANGED restVars

(***************************************************************************)
(* TrustScoreService (trust_score.py): the reduction of the risk score     *)
(* earned by the profile that the nightly worker left in the cache         *)
(***************************************************************************)
REDUCTION_LONG_HISTORY    == 0 - 15
REDUCTION_MEDIUM_HISTORY  == 0 - 8
REDUCTION_KYC_FULL        == 0 - 7
REDUCTION_KYC_BASIC       == 0 - 3
REDUCTION_MFA_ACTIVE      == 0 - 5
REDUCTION_FREQUENT_DEVICE == 0 - 5
REDUCTION_TRUSTED_COUNTRY == 0 - 3
MAX_TOTAL_REDUCTION       == 0 - 25

\* a value of the cache: absent (None), bytes that parse ([v |-> ...]) or
\* bytes that do not ([bad |-> TRUE]); lists are JSON arrays ([list |-> ...])
RawBad == [bad |-> TRUE]

IsBad(raw) == "bad" \in DOMAIN raw

\* the keys trust:user:{user_id}:* of one user, as the worker may leave them
TrustStores ==
    [account_age_days     : {NoneResult, [v |-> 245]},
     kyc_level            : {NoneResult, [v |-> "none"], [v |-> "basic"], [v |-> "full"]},
     mfa_active           : {NoneResult, [v |-> "0"], [v |-> "1"]},
     incident_free_months : {NoneResult, [v |-> 0], [v |-> 1], [v |-> 2], [v |-> 5],
                             [v |-> 6], RawBad},
     frequent_devices     : {NoneResult, [list |-> {1, 2}], [list |-> {2}], RawBad},
     frequent_countries   : {NoneResult, [list |-> {"MX"}], [list |-> {"US"}], RawBad}]

NoTrustStore ==
    [account_age_days |-> NoneResult, kyc_level |-> NoneResult, mfa_active |-> NoneResult,
     incident_free_months |-> NoneResult, frequent_devices |-> NoneResult,
     frequent_countries |-> NoneResult]

\* int(raw) if raw else 0
IntOrZero(raw) == IF IsNone(raw) THEN 0 ELSE raw.v

\* json.loads(raw) and the membership test, JSONDecodeError and TypeError caught
InJsonList(x, raw) == ~IsNone(raw) /\ ~IsBad(raw) /\ x \in raw.list

\* the factors that apply, in the order of the code, each with its points
TrustFactors(kyc_level, mfa_active, incident_free_months, is_frequent_device, country_in_history) ==
    (IF incident_free_months >= 6
     THEN <<[factor |-> "long_history", points |-> REDUCTION_LONG_HISTORY]>>
     ELSE IF incident_free_months >= 2
     THEN <<[factor |-> "medium_history", points |-> REDUCTION_MEDIUM_HISTORY]>>
     ELSE <<>>)
    \o (IF kyc_level = "full"
        THEN <<[factor |-> "kyc_full", points |-> REDUCTION_KYC_FULL]>>
        ELSE IF kyc_level = "basic"
        THEN <<[factor |-> "kyc_basic", points |-> REDUCTION_KYC_BASIC]>>
        ELSE <<>>)
    \o (IF mfa_active
        THEN <<[factor |-> "mfa_active", points |-> REDUCTION_MFA_ACTIVE]>> ELSE <<>>)
    \o (IF is_frequent_device
        THEN <<[factor |-> "frequent_device", points |-> REDUCTION_FREQUENT_DEVICE]>>
        ELSE <<>>)
    \o (IF country_in_history
        THEN <<[factor |-> "trusted_country", points |-> REDUCTION_TRUSTED_COUNTRY]>>
        ELSE <<>>)

RECURSIVE TrustTotal(_)
TrustTotal(breakdown) ==
    IF breakdown = <<>> THEN 0
    ELSE Head(breakdown).points + TrustTotal(Tail(breakdown))

\* final_reduction = max(total, MAX_TOTAL_REDUCTION)
FinalReductionUnfloored(total) == total
FinalReduction(total) == Max(total, MAX_TOTAL_REDUCTION)

\* TrustScoreService._calculate_reduction
calculate_reduction(account_age_days, kyc_level, mfa_active, incident_free_months, is_frequent_device, country_in_history) ==
    LET breakdown == TrustFactors(kyc_level, mfa_active, incident_free_months,
                                  is_frequent_device, country_in_history)
    IN  [trust_reduction      |-> FinalReduction(TrustTotal(breakdown)),
         account_age_days     |-> account_age_days,
         kyc_level            |-> kyc_level,
         mfa_active           |-> mfa_active,
         incident_free_months |-> incident_free_months,
         is_frequent_device   |-> is_frequent_device,
         country_in_history   |-> country_in_history,
         breakdown            |-> breakdown]

\* TrustScoreService._neutral_profile
neutral_profile ==
    [trust_reduction |-> 0, account_age_days |-> 0, kyc_level |-> "none",
     mfa_active |-> FALSE, incident_free_months |-> 0, is_frequent_device |-> FALSE,
     country_in_history |-> FALSE, breakdown |-> <<>>]

\* the parsing of the seven values of the MGET; int() of bytes that are no
\* number raises ValueError, which nothing in the service catches
ParseTrust(raw, device_id, country_code) ==
    IF IsBad(raw.account_age_days) \/ IsBad(raw.incident_free_months)
    THEN RaisedResult
    ELSE calculate_reduction(
             IntOrZero(raw.account_age_days),
             IF IsNone(raw.kyc_level) THEN "none" ELSE raw.kyc_level.v,
             ~IsNone(raw.mfa_active) /\ raw.mfa_active.v = "1",
             IntOrZero(raw.incident_free_months),
             InJsonList(device_id, raw.frequent_devices),
             country_code # NoneCountry /\ InJsonList(country_code, raw.frequent_countries))

NoTrustOut == [pc |-> "idle", ok |-> TRUE, device_id |-> 0, country_code |-> NoneCountry,
               result |-> NoneResult]

NoTrust == [store |-> NoTrustStore, out |-> NoTrustOut]

\* TrustScoreService.get_trust_profile: one MGET, then the calculation
get_trust_profile(device_id, country_code, ok) ==
    /\ dt' = [dt EXCEPT !.trust.out =
                 [pc |-> "done", ok |-> ok, device_id |-> device_id,
                  country_code |-> country_code,
                  result |-> IF ok THEN ParseTrust(dt.trust.store, device_id, country_code)
                             ELSE neutral_profile]]
    /\ UNCHANGED restVars

(***************************************************************************)
(* OtpService (otp_service.py): the one-time code of the checkout, kept in *)
(* the cache under otp:{user_id}:code, :attempts, :context and :cooldown   *)
(***************************************************************************)
OTP_TTL_SECONDS      == 300
OTP_MAX_ATTEMPTS     == 3
OTP_COOLDOWN_SECONDS == 60

\* the codes secrets.randbelow may draw and a user may type
OtpCodes == {1, 2}

Issuances == 1..MaxIssued

\* OtpService._hash_otp: SHA-256 of the digits, taken as free of collisions
hash_otp(otp) == <<"sha256", otp>>

\* a key of the cache that is not there; exp = 0 on a key that is there
\* stands for a key without expiry
NoOtpKey == [there |-> FALSE, v |-> 0, gen |-> 0, exp |-> 0]

OtpKey(v, gen, exp) == [there |-> TRUE, v |-> v, gen |-> gen, exp |-> exp]

NoOtpHash == hash_otp(0)

NoVerify == [pc |-> "idle", otp_input |-> 0, stored_hash |-> NoOtpHash, gen |-> 0,
             attempts |-> 0, context |-> 0]

NoGenerate == [pc |-> "idle", otp_code |-> 0, gen |-> 0, active |-> FALSE]

NoOtpOut == [op |-> "none", result |-> "none", gen |-> 0, context |-> 0, refused |-> FALSE,
             active |-> FALSE, stored |-> FALSE, sent |-> FALSE, recorded |-> 0]

NoOtp == [code |-> NoOtpKey, attempts |-> NoOtpKey, context |-> NoOtpKey,
          cooldown |-> NoOtpKey, issued |-> 0, verifies |-> 0,
          generate |-> NoGenerate, call |-> [c \in DtCalls |-> NoVerify],
          wins |-> [g \in Issuances |-> 0], fails |-> [g \in Issuances |-> 0],
          out |-> NoOtpOut]

\* generate_and_send is called: the next issuance of the user
GenCall ==
    /\ dt.otp.generate.pc = "idle"
    /\ dt.otp.issued < MaxIssued
    /\ dt' = [dt EXCEPT !.otp.generate = [NoGenerate EXCEPT !.pc = "exists"],
                        !.otp.out = NoOtpOut]
    /\ UNCHANGED restVars

\* redis.exists(cooldown_key): while the key is there the call returns True
\* and issues nothing
GenExists(otp_code) ==
    /\ dt.otp.generate.pc = "exists"
    /\ IF dt.otp.cooldown.there
       THEN dt' = [dt EXCEPT !.otp.generate = NoGenerate,
                             !.otp.out = [NoOtpOut EXCEPT !.op = "generate", !.result = "True",
                                                          !.refused = TRUE,
                                                          !.active = dt.otp.code.there]]
       ELSE dt' = [dt EXCEPT !.otp.generate = [pc |-> "pipeline", otp_code |-> otp_code,
                                               gen |-> dt.otp.issued + 1,
                                               active |-> dt.otp.code.there],
                             !.otp.out = NoOtpOut]
    /\ UNCHANGED restVars

\* the four SETEX of the pipeline, one MULTI/EXEC; an error returns False
GenPipeline(ok) ==
    LET g == dt.otp.generate
    IN  /\ g.pc = "pipeline"
        /\ IF ok
           THEN dt' = [dt EXCEPT
                         !.otp.code     = OtpKey(hash_otp(g.otp_code), g.gen,
                                                 dt.now + OTP_TTL_SECONDS),
                         !.otp.attempts = OtpKey(0, g.gen, dt.now + OTP_TTL_SECONDS),
                         !.otp.context  = OtpKey(g.gen, g.gen, dt.now + OTP_TTL_SECONDS),
                         !.otp.cooldown = OtpKey(1, g.gen, dt.now + OTP_COOLDOWN_SECONDS),
                         !.otp.issued   = g.gen,
                         !.otp.generate.pc = "send",
                         !.otp.out = NoOtpOut]
           ELSE dt' = [dt EXCEPT !.otp.generate = NoGenerate,
                                 !.otp.out = [NoOtpOut EXCEPT !.op = "generate",
                                                              !.result = "False"]]
        /\ UNCHANGED restVars

\* email_service.send_otp: the call returns what the mailer returns
GenSend(sent) ==
    LET g == dt.otp.generate
    IN  /\ g.pc = "send"
        /\ dt' = [dt EXCEPT !.otp.generate = NoGenerate,
                            !.otp.out = [NoOtpOut EXCEPT !.op = "generate",
                                            !.result = IF sent THEN "True" ELSE "False",
                                            !.gen = g.gen, !.stored = TRUE, !.sent = sent]]
        /\ UNCHANGED restVars

\* verify is called with the digits the user typed
VerifyCall(c, otp_input) ==
    /\ dt.otp.call[c].pc = "idle"
    /\ dt.otp.verifies < MaxVerifies
    /\ dt' = [dt EXCEPT !.otp.call[c] = [NoVerify EXCEPT !.pc = "get_code",
                                                         !.otp_input = otp_input],
                        !.otp.verifies = @ + 1,
                        !.otp.out = NoOtpOut]
    /\ UNCHANGED restVars

\* stored_hash = redis.get(code_key); OtpExpiredException when there is none
VerifyGetCode(c) ==
    LET call == dt.otp.call[c]
    IN  /\ call.pc = "get_code"
        /\ IF dt.otp.code.there
           THEN dt' = [dt EXCEPT !.otp.call[c] = [call EXCEPT !.pc = "get_attempts",
                                                     !.stored_hash = dt.otp.code.v,
                                                     !.gen = dt.otp.code.gen],
                                 !.otp.out = NoOtpOut]
           ELSE dt' = [dt EXCEPT !.otp.call[c] = NoVerify,
                                 !.otp.out = [NoOtpOut EXCEPT !.op = "verify",
                                                 !.result = "OtpExpiredException"]]
        /\ UNCHANGED restVars

\* raw_attempts = redis.get(attempts_key), then the two tests made on it and
\* on the hash of the input
VerifyGetAttempts(c) ==
    LET call     == dt.otp.call[c]
        attempts == IF dt.otp.attempts.there THEN dt.otp.attempts.v ELSE 0
    IN  /\ call.pc = "get_attempts"
        /\ dt' = [dt EXCEPT !.otp.call[c] =
                     [call EXCEPT !.attempts = attempts,
                                  !.pc = IF attempts >= OTP_MAX_ATTEMPTS THEN "cancel"
                                         ELSE IF hash_otp(call.otp_input) # call.stored_hash
                                         THEN "incr"
                                         ELSE "get_context"],
                        !.otp.out = NoOtpOut]
        /\ UNCHANGED restVars

\* OtpService._invalidate: one DEL of code, attempts and context
Invalidate(otp) == [otp EXCEPT !.code = NoOtpKey, !.attempts = NoOtpKey, !.context = NoOtpKey]

\* attempts >= OTP_MAX_ATTEMPTS: the OTP is deleted, OtpMaxAttemptsException
VerifyCancel(c) ==
    LET call == dt.otp.call[c]
    IN  /\ call.pc = "cancel"
        /\ dt' = [dt EXCEPT !.otp = [Invalidate(@) EXCEPT
                     !.call[c] = NoVerify,
                     !.out = [NoOtpOut EXCEPT !.op = "verify", !.gen = call.gen,
                                              !.result = "OtpMaxAttemptsException"]]]
        /\ UNCHANGED restVars

\* a wrong code: redis.incr(attempts_key), OtpInvalidException. INCR makes a
\* key that is not there, without expiry
VerifyIncr(c) ==
    LET call == dt.otp.call[c]
    IN  /\ call.pc = "incr"
        /\ dt' = [dt EXCEPT
                     !.otp.attempts = IF @.there THEN [@ EXCEPT !.v = @ + 1]
                                      ELSE OtpKey(1, call.gen, 0),
                     !.otp.fails[call.gen] = @ + 1,
                     !.otp.call[c] = NoVerify,
                     !.otp.out = [NoOtpOut EXCEPT !.op = "verify", !.gen = call.gen,
                                                  !.result = "OtpInvalidException"]]
        /\ UNCHANGED restVars

\* the right code: raw_context = redis.get(context_key), {} when it is gone
VerifyGetContext(c) ==
    LET call == dt.otp.call[c]
    IN  /\ call.pc = "get_context"
        /\ dt' = [dt EXCEPT !.otp.call[c] =
                     [call EXCEPT !.pc = "invalidate",
                                  !.context = IF dt.otp.context.there
                                              THEN dt.otp.context.v ELSE 0],
                        !.otp.out = NoOtpOut]
        /\ UNCHANGED restVars

\* the OTP is deleted and verify returns the context
VerifyInvalidate(c) ==
    LET call == dt.otp.call[c]
    IN  /\ call.pc = "invalidate"
        /\ dt' = [dt EXCEPT !.otp = [Invalidate(@) EXCEPT
                     !.call[c] = NoVerify,
                     !.wins[call.gen] = @ + 1,
                     !.out = [NoOtpOut EXCEPT !.op = "verify", !.gen = call.gen,
                                              !.result = "context",
                                              !.context = call.context,
                                              !.recorded = dt.otp.fails[call.gen]]]]
        /\ UNCHANGED restVars

\* the detectors at rest
NoDt == [now |-> 0, ticks |-> 0, calls |-> 0, ih |-> NoIh, geo |-> NoGeo,
         rate |-> NoRateWindow, boot |-> NoBoot, ct |-> NoCt, tp |-> NoTp,
         p2p |-> NoP2P, trust |-> NoTrust, otp |-> NoOtp]

\* a call is between two commands: each command ends within the socket
\* timeout of the client (0.5 s, retried), less than a step of the clock
DtMidCall ==
    \/ \E c \in DtCalls : \/ dt.ih.call[c].pc # "idle"
                          \/ dt.geo.call[c].pc # "idle"
                          \/ dt.p2p.call[c].pc # "idle"
                          \/ dt.otp.call[c].pc # "idle"
    \/ dt.otp.generate.pc # "idle"

\* time passes; Redis deletes the keys whose expiry has come
DtTick(d) ==
    /\ dt.ticks < MaxTicks
    /\ ~DtMidCall
    /\ LET t == dt.now + d
       IN  dt' = [dt EXCEPT
                    !.now   = t,
                    !.ticks = @ + 1,
                    !.ih.store = IF @ # NoIpRec /\ @.exp <= t THEN NoIpRec ELSE @,
                    !.rate.ip      = IF @ # NoCounter /\ @.exp <= t THEN NoCounter ELSE @,
                    !.rate.user    = IF @ # NoCounter /\ @.exp <= t THEN NoCounter ELSE @,
                    !.rate.out.pc  = "idle",
                    !.geo.out      = NoGeoCall,
                    !.geo.last_tx  = IF @ # NoLastTx /\ @.exp <= t THEN NoLastTx ELSE @,
                    !.geo.history  = IF @ # NoHistory /\ @.exp <= t THEN NoHistory ELSE @,
                    !.geo.traveler = IF @ # NoTraveler /\ @.exp <= t THEN NoTraveler ELSE @,
                    !.p2p.out      = NoP2POut,
                    !.p2p.keys     = [k \in P2PCounters |-> [u \in P2PUsers |->
                                         IF @[k][u] # NoP2PKey /\ @[k][u].exp <= t
                                         THEN NoP2PKey ELSE @[k][u]]],
                    !.otp.out      = NoOtpOut,
                    !.otp.code     = IF @.there /\ @.exp <= t THEN NoOtpKey ELSE @,
                    !.otp.context  = IF @.there /\ @.exp <= t THEN NoOtpKey ELSE @,
                    !.otp.cooldown = IF @.there /\ @.exp <= t THEN NoOtpKey ELSE @,
                    !.otp.attempts = IF @.there /\ @.exp # 0 /\ @.exp <= t
                                     THEN NoOtpKey ELSE @]
    /\ UNCHANGED restVars

(***************************************************************************)
(* Specifications                                                          *)
(***************************************************************************)
InitCache ==
    /\ blStore  = [k \in BlKeys |-> Nil]
    /\ blTemp   = [k \in BlKeys |-> FALSE]
    /\ rateIp   = [ip \in Ips |-> 0]
    /\ rateUser = [u \in Users |-> 0]
    /\ session  = [s \in Sids |-> NoUser]

InitCalls ==
    /\ evalPc   = [p \in Evals |-> "idle"]
    /\ evalReq  = [p \in Evals |-> NoPayload]
    /\ evalBl   = [p \in Evals |-> NoHit]
    /\ evalRate = [p \in Evals |-> NoRate]
    /\ evalOut  = [p \in Evals |-> NoOutcome]
    /\ evalSeen = [p \in Evals |-> NoSeen]
    /\ sgPc     = [q \in Checks |-> "idle"]
    /\ sgReq    = [q \in Checks |-> [session_id |-> 0, user_id |-> NoUser]]
    /\ sgRes    = [q \in Checks |-> NoResult]
    /\ sgHist   = [q \in Checks |-> NoHist]
    /\ sidFault = [s \in Sids |-> FALSE]
    /\ sidClean = [s \in Sids |-> 0]

InitNoAggregation ==
    /\ agPc  = "idle"
    /\ agIn  = NoAgIn
    /\ agOut = NoAgOut
    /\ bs    = [c \in SignCalls |-> NoBs]
    /\ kv    = InitKv
    /\ fl    = NoFl

InitNoDecision ==
    /\ InitNoAggregation
    /\ daPc  = [c \in DaCalls |-> "idle"]
    /\ daIn  = [c \in DaCalls |-> [score |-> 0, p2p_result |-> NoneResult]]
    /\ daOut = [c \in DaCalls |-> NoDecision]

\* the engine as deployed: one interpreter, an empty cache, no call in progress
Init ==
    /\ pyEnumFmt \in {"value", "str"}
    /\ InitCache /\ InitCalls /\ InitNoDecision
    /\ dt = NoDt

BlacklistOps ==
    \/ \E t \in TypeSet : \E v \in SlotValues(t) : \E r \in Reasons :
          \E temporary \in BOOLEAN, ok \in BOOLEAN :
             BlacklistAdd(t, v, r, temporary, ok) /\ UNCHANGED pureVars
    \/ \E t \in TypeSet : \E v \in SlotValues(t) : \E ok \in BOOLEAN :
          BlacklistRemove(t, v, ok) /\ UNCHANGED pureVars
    \/ \E k \in BlKeys : BlacklistExpire(k) /\ UNCHANGED pureVars

EvalOps ==
    \/ \E p \in Evals, payload \in Payloads, txid \in TxIds :
          EvalCall(p, payload, txid) /\ UNCHANGED pureVars
    \/ \E p \in Evals, ok \in BOOLEAN : EvalBlacklist(p, ok) /\ UNCHANGED pureVars
    \/ \E p \in Evals, ok \in BOOLEAN, applied \in BOOLEAN :
          EvalRateLimit(p, ok, applied) /\ UNCHANGED pureVars
    \/ \E ip \in Ips : RateIpExpire(ip) /\ UNCHANGED pureVars
    \/ \E u \in Users : RateUserExpire(u) /\ UNCHANGED pureVars

SessionOps ==
    \/ \E q \in Checks, sid \in Sids, uid \in Users : SgCall(q, sid, uid) /\ UNCHANGED pureVars
    \/ \E q \in Checks, ok \in BOOLEAN : SgSetNx(q, ok) /\ UNCHANGED pureVars
    \/ \E q \in Checks, ok \in BOOLEAN : SgGet(q, ok) /\ UNCHANGED pureVars
    \/ \E sid \in Sids : SessionExpire(sid) /\ UNCHANGED pureVars

\* evaluations against a blacklist that analysts edit
Next == BlacklistOps \/ EvalOps

Spec == Init /\ [][Next]_vars

\* concurrent callers of the session guard
NextSession == SessionOps

SpecSession == Init /\ [][NextSession]_vars

\* the decision mapping on every pair of inputs
InitDecision ==
    /\ pyEnumFmt = "value"
    /\ InitCache /\ InitCalls /\ InitNoAggregation
    /\ dt = NoDt
    /\ daPc  = [c \in DaCalls |-> "input"]
    /\ daIn  \in [DaCalls -> [score : 0..MaxScore, p2p_result : P2PResults]]
    /\ daOut = [c \in DaCalls |-> NoDecision]

NextDecision == \E c \in DaCalls : Decide(c)

SpecDecision == InitDecision /\ [][NextDecision]_vars

\* the scoring of one evaluation on every result list
InitScore ==
    /\ pyEnumFmt = "value"
    /\ InitCache /\ InitCalls /\ InitNoDecision
    /\ dt = NoDt

NextScore ==
    /\ agPc = "idle"
    /\ \E h \in HistoryProfiles, d \in DeviceRaws, e \in ExternalRaws, v \in VelocityRaws,
          g \in GeoRaws, b \in BehaviorRaws, t \in TrustRaws, i \in IpHistoryRaws,
          s \in SessionRaws, c \in CardTestingRaws, m \in TimePatternRaws,
          p \in P2PSlots, rate \in RateResults, txid \in TxIds :
          LET ten == <<d, e, v, g, b, t, i, s, c, m>>
          IN  IF p = NoP2PTask
              THEN AgFinish(AgPayload(h, "PAYMENT"), ten, rate, txid)
              ELSE AgFinish(AgPayload(h, "P2P_SEND"), Append(ten, p), rate, txid)

SpecScore == InitScore /\ [][NextScore]_vars

\* _build_response on every pair of argument lists
InitSign ==
    /\ pyEnumFmt = "value"
    /\ InitCache /\ InitCalls
    /\ agPc = "idle" /\ agIn = NoAgIn /\ agOut = NoAgOut
    /\ daPc  = [c \in DaCalls |-> "idle"]
    /\ daIn  = [c \in DaCalls |-> [score |-> 0, p2p_result |-> NoneResult]]
    /\ daOut = [c \in DaCalls |-> NoDecision]
    /\ bs \in [SignCalls -> {[NoBs EXCEPT !.pc = "input", !.in = i] : i \in BsInputs}]
    /\ kv = InitKv
    /\ fl = NoFl
    /\ dt = NoDt

NextSign == \E c \in SignCalls : BuildResponse(c)

SpecSign == InitSign /\ [][NextSign]_vars

\* concurrent evaluations on the counters of the velocity script and of the
\* P2P analyzer, while time passes
InitCounters == InitScore

NextCounters ==
    \/ \E u \in KvUsers, amount \in Amounts, card_bin \in Bins :
         \E applied \in BOOLEAN : TopUpEvaluate(u, amount, card_bin, applied)
    \/ \E s \in KvUsers, r \in KvUsers, amount \in Amounts, applied \in BOOLEAN :
         P2PUpdateCounters(s, r, amount, applied)
    \/ \E k \in KvKeys : KvExpire(kv.ttl[k])

SpecCounters == InitCounters /\ [][NextCounters]_vars

\* one evaluation and its background task
InitFlow == InitScore

NextFlow ==
    \/ \E payload \in FlPayloads : FlCall(payload)
    \/ \E payload \in FlPayloads, t \in TypeSet : FlBlacklistHit(payload, t)
    \/ FlRateLimit
    \/ \E d \in BaseTasks \cup {"p2p"} : FlTaskCompletes(d)
    \/ FlDeadline
    \/ \E d \in FlDecisions : FlBuild(d)
    \/ FlDispatch
    \/ \E runs \in 0..(RETRIES + 1), ok \in BOOLEAN : BgDevicePipe(runs, ok)
    \/ \E runs \in 0..(RETRIES + 1), ok \in BOOLEAN : BgAccumRisk(runs, ok)
    \/ \E runs \in 0..(RETRIES + 1), ok \in BOOLEAN : BgTrust(runs, ok)
    \/ \E runs \in 0..(RETRIES + 1), ok \in BOOLEAN : BgRecipientsIncr(runs, ok)
    \/ \E runs \in 0..(RETRIES + 1), ok \in BOOLEAN : BgRecipientsExpire(runs, ok)
    \/ \E ok \in BOOLEAN : BgAudit(ok)

SpecFlow == InitFlow /\ [][NextFlow]_vars

\* concurrent checks of the IP history of one user, as time passes
NextIpHistory ==
    \/ \E c \in DtCalls, country \in Countries, ok \in BOOLEAN :
          IhCheckGet(c, IpOf(country), country, ok)
    \/ \E c \in DtCalls, applied \in BOOLEAN : IhCheckSetex(c, applied)
    \/ \E d \in ClockSteps : DtTick(d)

SpecIpHistory == InitScore /\ [][NextIpHistory]_vars

\* the seconds by which the clock advances between geographic analyses: the
\* flight time from Mexico City to New York at 900 km/h plus 3 h is
\* 24237.5 s; the 30 days of last_tx and of a trip
GeoSteps == {24237, 24238, 2592000}

\* the trips declared: destinations and days
Trips == {{"US", "RU"}}
TripDays == {0, 30}

\* concurrent analyses of one user, as trips are declared and cancelled and
\* time passes
\* one analysis at a time
GeoSequential == {"first"}

NextGeo ==
    \/ \E c \in GeoSequential, country \in GeoIpCountries, applied \in {TRUE} :
          GeoObfuscated(c, country, applied)
    \/ \E c \in GeoSequential, place \in Places, country \in GeoIpCountries,
          bin \in BinCountries, ok \in {TRUE} :
          GeoTraveler(c, place, country, bin, ok)
    \/ \E c \in GeoSequential, ok \in {TRUE} : GeoImpossibleTravel(c, ok)
    \/ \E c \in GeoSequential, ok \in {TRUE} : GeoCountryHistory(c, ok)
    \/ \E c \in GeoSequential, applied \in {TRUE} : GeoUpdateLast(c, applied)
    \/ \E c \in GeoSequential, ok \in {TRUE} : GeoAddGet(c, ok)
    \/ \E c \in GeoSequential, applied \in {TRUE} :
          \E dropped \in Droppable(dt.geo.call[c].history) : GeoAddSet(c, applied, dropped)
    \/ \E trip \in Trips, days \in TripDays, applied \in {TRUE} :
          GeoSetTraveler(trip, days, applied)
    \/ \E applied \in {TRUE} : GeoCancelTraveler(applied)
    \/ \E d \in GeoSteps : DtTick(d)

SpecGeo == InitScore /\ [][NextGeo]_vars

\* a user who has operated from twenty countries, the least recent first
TwentyCountries ==
    <<"AR", "BR", "CA", "CL", "CO", "DE", "ES", "FR", "GB", "IT",
      "JP", "PE", "PT", "US", "UY", "CN", "IN", "KR", "NL", "MX">>

\* the keys of that user after the analysis from the twentieth country
GeoOfTwenty ==
    [NoGeo EXCEPT
       !.last_tx = LastTx("CDMX", "MX", 0),
       !.last    = [place |-> "CDMX", country |-> "MX", ts |-> 0],
       !.history = [countries |-> {TwentyCountries[i] : i \in DOMAIN TwentyCountries},
                    exp |-> SECONDS_24H * HISTORY_TTL_DAYS],
       !.used    = TwentyCountries]

\* a new user, or one with a full country history
InitHistory ==
    /\ pyEnumFmt = "value"
    /\ InitCache /\ InitCalls /\ InitNoDecision
    /\ dt \in {NoDt, [NoDt EXCEPT !.geo = GeoOfTwenty]}

\* analyses of the user that follow one another, no cache command failing
NextHistory ==
    \/ \E place \in Places, country \in GeoIpCountries, bin \in BinCountries :
          GeoTraveler("first", place, country, bin, TRUE)
    \/ GeoImpossibleTravel("first", TRUE)
    \/ GeoCountryHistory("first", TRUE)
    \/ GeoUpdateLast("first", TRUE)
    \/ GeoAddGet("first", TRUE)
    \/ \E dropped \in Droppable(dt.geo.call["first"].history) :
          GeoAddSet("first", TRUE, dropped)

SpecHistory == InitHistory /\ [][NextHistory]_vars

\* concurrent analyses of a new user, no cache command failing, the clock
\* standing still
NextRace ==
    \/ \E c \in DtCalls, place \in Places, country \in GeoIpCountries, bin \in BinCountries :
          GeoTraveler(c, place, country, bin, TRUE)
    \/ \E c \in DtCalls : GeoImpossibleTravel(c, TRUE)
    \/ \E c \in DtCalls : GeoCountryHistory(c, TRUE)
    \/ \E c \in DtCalls : GeoUpdateLast(c, TRUE)
    \/ \E c \in DtCalls : GeoAddGet(c, TRUE)
    \/ \E c \in DtCalls :
          \E dropped \in Droppable(dt.geo.call[c].history) : GeoAddSet(c, TRUE, dropped)

SpecRace == InitScore /\ [][NextRace]_vars

\* analyses of the user that follow one another, any cache command failing
NextGeoFaults ==
    \/ \E country \in GeoIpCountries, applied \in BOOLEAN :
          GeoObfuscated("first", country, applied)
    \/ \E place \in Places, country \in GeoIpCountries, bin \in BinCountries,
          ok \in BOOLEAN :
          GeoTraveler("first", place, country, bin, ok)
    \/ \E ok \in BOOLEAN : GeoImpossibleTravel("first", ok)
    \/ \E ok \in BOOLEAN : GeoCountryHistory("first", ok)
    \/ \E applied \in BOOLEAN : GeoUpdateLast("first", applied)
    \/ \E ok \in BOOLEAN : GeoAddGet("first", ok)
    \/ \E applied \in BOOLEAN :
          \E dropped \in Droppable(dt.geo.call["first"].history) :
              GeoAddSet("first", applied, dropped)

SpecGeoFaults == InitScore /\ [][NextGeoFaults]_vars

\* the seconds between the requests of the user
RateSteps == {59, 60, 300}

\* the requests of one user from one address, as time passes
NextRate ==
    \/ \E ok \in BOOLEAN, applied \in BOOLEAN : RateScore(ok, applied)
    \/ \E d \in RateSteps : DtTick(d)

SpecRate == InitScore /\ [][NextRate]_vars

\* a process started with its weights as shipped or changed
InitBoot ==
    /\ pyEnumFmt = "value"
    /\ InitCache /\ InitCalls /\ InitNoDecision
    /\ dt \in {[NoDt EXCEPT !.boot.weights = w] : w \in WeightConfigs}

NextBoot ==
    \/ Lifespan
    \/ \E scores \in ModuleScores : ServeWeighted(scores)
    \/ Shutdown

SpecBoot == InitBoot /\ [][NextBoot]_vars

\* the list of a pair when the run starts: empty, short, or full with the
\* small amounts at its old end
CtHistories ==
    {<<>>,
     <<CtEntry(10, 0), CtEntry(10, 0)>>,
     <<CtEntry(10, 0), CtEntry(10, 0), CtEntry(10, 0)>>,
     [i \in 1..AMOUNTS_KEPT |-> CtEntry(IF i <= 6 THEN 50 ELSE 10, 0)]}

InitCardTest ==
    /\ pyEnumFmt = "value"
    /\ InitCache /\ InitCalls /\ InitNoDecision
    /\ dt \in {[NoDt EXCEPT !.ct.amounts = amounts, !.ct.rate = rate] :
                 amounts \in CtHistories, rate \in {0, RAPID_THRESHOLD - 2}}

NextCardTest ==
    \/ \E c \in DtCalls, amount \in CtAmounts, ok \in BOOLEAN, applied \in BOOLEAN :
         CtCheckPipeline(c, amount, ok, applied)
    \/ \E c \in DtCalls, ok \in BOOLEAN : CtCheckLrange(c, ok)

SpecCardTest == InitCardTest /\ [][NextCardTest]_vars

\* the keys of a user when the run starts: none, or a counter around the end
\* of the calibration with the hours seen so far
TpHistories ==
    {[NoTp EXCEPT !.bitmap = b, !.done = b, !.tx_count = n] :
        b \in {{3}, {3, 14}}, n \in {8, 9, 10}} \cup {NoTp}

InitTimePattern ==
    /\ pyEnumFmt = "value"
    /\ InitCache /\ InitCalls /\ InitNoDecision
    /\ dt \in {[NoDt EXCEPT !.tp = tp] : tp \in TpHistories}

NextTimePattern ==
    \/ \E c \in DtCalls, hour \in Hours, ok \in BOOLEAN : TpBitfield(c, hour, ok)
    \/ \E c \in DtCalls, ok \in BOOLEAN : TpGet(c, ok)
    \/ \E c \in DtCalls, ok \in BOOLEAN, applied \in BOOLEAN : TpPipeline(c, ok, applied)
    \/ TpExpire

SpecTimePattern == InitTimePattern /\ [][NextTimePattern]_vars

\* counters recorded before the run: five senders for user 2 and a volume of
\* 8300 for user 1, all at time 0
P2PRecorded ==
    LET senders == {[member |-> s, amount |-> 0, by |-> 0, at |-> 0] : s \in 11..15}
    IN  [NoP2PKeys EXCEPT
           !["fanin_1h"][2]  = [members |-> senders, v |-> 0, exp |-> SECONDS_1H],
           !["fanin_24h"][2] = [members |-> senders, v |-> 0, exp |-> SECONDS_24H],
           !["daily_vol"][1] = [members |-> {[member |-> 0, amount |-> 8300, by |-> 0,
                                              at |-> 0]},
                                v |-> 8300, exp |-> SECONDS_24H]]

InitP2P ==
    /\ pyEnumFmt = "value"
    /\ InitCache /\ InitCalls /\ InitNoDecision
    /\ dt = [NoDt EXCEPT !.p2p.keys = P2PRecorded]

\* transfers to user 2 analysed by two concurrent evaluations
NextP2P ==
    \/ \E c \in DtCalls, sender_id \in {1, 3} :
          P2PAnalyze(c, sender_id, 2, 800, P2PNoProfile)
    \/ \E c \in DtCalls, k \in P2PCounters : P2PRead(c, k, TRUE)
    \/ \E c \in DtCalls, ok \in BOOLEAN, applied \in BOOLEAN : P2PScoreAndUpdate(c, ok, applied)

SpecP2P == InitP2P /\ [][NextP2P]_vars

\* steps of the clock around the two windows
P2PSteps == {3599, 3600, 86399}

InitP2PWindow ==
    /\ pyEnumFmt = "value"
    /\ InitCache /\ InitCalls /\ InitNoDecision
    /\ dt \in {NoDt, [NoDt EXCEPT !.p2p.keys = P2PRecorded]}

\* transfers to user 2 analysed one after the other, no cache error, while
\* time passes
NextP2PWindow ==
    \/ \E sender_id \in {1, 3}, amount \in {800, 1000}, profile \in P2PProfiles :
          P2PAnalyze("first", sender_id, 2, amount, profile)
    \/ \E k \in P2PCounters : P2PRead("first", k, TRUE)
    \/ P2PScoreAndUpdate("first", TRUE, TRUE)
    \/ \E d \in P2PSteps : DtTick(d)

SpecP2PWindow == InitP2PWindow /\ [][NextP2PWindow]_vars

\* the scoring of one evaluation on every time of filling the form:
\* TransactionPayload.form_fill_time_seconds is Optional[int], ge = 0
FormFillTimes == {NoneField, 0, 2, 3, 8, 9, 900, 901}

FormFillPayload(h, f) == AgPayload(h, "PAYMENT") @@ [form_fill_time_seconds |-> f]

InitFormFill ==
    /\ pyEnumFmt = "value"
    /\ InitCache /\ InitCalls /\ InitNoDecision
    /\ dt = NoDt

NextFormFill ==
    /\ agPc = "idle"
    /\ \E f \in FormFillTimes, h \in HistoryProfiles, d \in DeviceRaws, v \in VelocityRaws,
          t \in TrustRaws, i \in IpHistoryRaws, txid \in TxIds :
          AgFinish(FormFillPayload(h, f),
                   <<d, FloatResult(10), v, RaisedResult, RaisedResult, t, i, NoResult,
                     [penalty |-> 0, reason_codes |-> <<>>],
                     [penalty |-> 0, reason_codes |-> <<>>]>>,
                   NoRate, txid)

SpecFormFill == InitFormFill /\ [][NextFormFill]_vars

\* the trust service on every profile the worker may have left, for a device
\* and a country of the request, the MGET answering or failing
TrustDevices == {1, 3}

InitTrust ==
    /\ pyEnumFmt = "value"
    /\ InitCache /\ InitCalls /\ InitNoDecision
    /\ \E store \in TrustStores : dt = [NoDt EXCEPT !.trust.store = store]

NextTrust ==
    \E device_id \in TrustDevices, country_code \in {NoneCountry, "MX"}, ok \in BOOLEAN :
        get_trust_profile(device_id, country_code, ok)

SpecTrust == InitTrust /\ [][NextTrust]_vars

\* one user asking for codes and typing codes from two devices at once,
\* every command of the cache answering but for the pipeline of an issuance
OtpSteps == {60, 300}

InitOtp ==
    /\ pyEnumFmt = "value"
    /\ InitCache /\ InitCalls /\ InitNoDecision
    /\ dt = NoDt

NextOtp ==
    \/ GenCall
    \/ \E otp_code \in OtpCodes : GenExists(otp_code)
    \/ \E ok \in BOOLEAN : GenPipeline(ok)
    \/ \E sent \in BOOLEAN : GenSend(sent)
    \/ \E c \in DtCalls, otp_input \in OtpCodes : VerifyCall(c, otp_input)
    \/ \E c \in DtCalls : VerifyGetCode(c)
    \/ \E c \in DtCalls : VerifyGetAttempts(c)
    \/ \E c \in DtCalls : VerifyCancel(c)
    \/ \E c \in DtCalls : VerifyIncr(c)
    \/ \E c \in DtCalls : VerifyGetContext(c)
    \/ \E c \in DtCalls : VerifyInvalidate(c)
    \/ \E d \in OtpSteps : DtTick(d)

SpecOtp == InitOtp /\ [][NextOtp]_vars

(***************************************************************************)
(* Properties                                                              *)
(***************************************************************************)
Actions == {"ACTION_APPROVE", "ACTION_CHALLENGE_SOFT", "ACTION_CHALLENGE_HARD",
            "ACTION_BLOCK_REVIEW", "ACTION_BLOCK_PERM"}

Ended(p) == evalPc[p] \in {"returned", "raised"}

\* C1: the risk_score of every response is in 0..100, and so is the running
\* score after each step that changes it
C1_RiskScoreInRange ==
    /\ \A p \in Evals :
          evalPc[p] = "returned" => evalOut[p].risk_score \in 0..100
    /\ agPc = "done"
       => /\ agOut.response.risk_score \in 0..100
          /\ \A step \in DOMAIN agOut.running : agOut.running[step] \in 0..100

\* a score that starts at the lower limit and ends at the upper one
C1_Witness ==
    /\ agPc = "done"
    /\ agOut.running.weighted = 0
    /\ agIn.rate.penalty > 0
    /\ agOut.response.risk_score = 100

\* C2: when the blacklist holds an entry for one of the four entities of the
\* payload and the MGET succeeds, the call returns BLOCK_PERM with score 100
\* and the single reason code BLACKLIST_{TYPE}_HIT of the first such type
C2_BlacklistShortCircuit ==
    \A p \in Evals :
        (evalPc[p] \notin {"idle", "blacklist"} /\ evalSeen[p].read_ok
            /\ evalSeen[p].held # Nil)
        => /\ evalPc[p] = "returned"
           /\ evalOut[p].action = "ACTION_BLOCK_PERM"
           /\ evalOut[p].risk_score = 100
           /\ evalOut[p].reason_codes = <<BlacklistCode(evalSeen[p].held)>>

\* the short circuit on an interpreter that formats the Enum member as its value
BlacklistShortCircuitOnValueFormat == (pyEnumFmt = "value") => C2_BlacklistShortCircuit

WellFormed(out) ==
    /\ out.kind = "response"
    /\ out.action \in Actions
    /\ out.risk_score \in 0..100
    /\ out.signature # <<>>
    /\ Len(out.score_breakdown) = Len(out.reason_codes)

\* C3: a call for a payload that is not blacklisted never ends by raising: it
\* returns a well-formed evaluation
C3_NoErrorEscapes ==
    \A p \in Evals : (Ended(p) /\ ~evalBl[p].hit) => WellFormed(evalOut[p])

IsClean(r)  == r = NoResult
IsReplay(r) == /\ r.penalty = 40
               /\ r.reason_codes = <<Code(<<"SESSION", "REPLAY", "ATTACK">>)>>
               /\ ~r.override_block
IsHijack(r) == /\ r.reason_codes = <<Code(<<"SESSION", "HIJACK", "DETECTED">>)>>
               /\ r.override_block

\* the result a finished check owes to the owner stored for its session id
ClassifiedAgainst(q, owner) ==
    IF sgHist[q].created THEN IsClean(sgRes[q])
    ELSE IF sgReq[q].user_id = owner THEN IsReplay(sgRes[q])
    ELSE IsHijack(sgRes[q])

\* C4: within the TTL of a session key and with its commands succeeding, the
\* check that created the key returned clean, a later check of the owner is a
\* replay and a later check of another user is a hijack
C4_SessionClassification ==
    \A q \in Checks :
        (sgPc[q] = "done" /\ ~sidFault[sgReq[q].session_id])
        => ClassifiedAgainst(q, session[sgReq[q].session_id])

\* C5: concurrent checks of one session id (cache healthy, key not expiring):
\* exactly one returns clean and every other one is classified against the
\* owner the winner wrote
C5_OneWinner ==
    \A sid \in Sids :
        ~sidFault[sid]
        => /\ sidClean[sid] = (IF session[sid] = NoUser THEN 0 ELSE 1)
           /\ \A q \in Checks :
                 (sgPc[q] = "done" /\ sgReq[q].session_id = sid)
                 => /\ ClassifiedAgainst(q, session[sid])
                    /\ sgHist[q].read => sgHist[q].owner = session[sid]

\* the part of C5 that does not depend on the comparison: one clean result
\* per session id, owner never replaced
SessionOneCleanResult ==
    \A sid \in Sids :
        ~sidFault[sid] => sidClean[sid] = (IF session[sid] = NoUser THEN 0 ELSE 1)

IpHistoryOf(in) == safe_result(in.raw_results[7])
SessionOf(in)   == safe_result(in.raw_results[8])
GeoOf(in)       == safe_result(in.raw_results[4])
P2POf(in)       == IF Len(in.raw_results) > 10 THEN safe_result(in.raw_results[11])
                   ELSE NoneResult

OverrideBlock(result) == ~IsNone(result) /\ result.override_block

HasCode(response, code) ==
    \E i \in 1..Len(response.reason_codes) : response.reason_codes[i] = code

\* C6: when the IP-history result or the session-guard result has
\* override_block set, the score is 100 from that step on and the response
\* carries risk_score 100 and BLOCK_PERM
C6_OverrideBlockIsFinal ==
    agPc = "done" =>
        /\ OverrideBlock(IpHistoryOf(agIn))
           => \A step \in {"ip_history", "session", "card_testing", "time_pattern",
                            "travel", "mule"} : agOut.running[step] = 100
        /\ OverrideBlock(SessionOf(agIn))
           => \A step \in {"session", "card_testing", "time_pattern", "travel", "mule"} :
                 agOut.running[step] = 100
        /\ (OverrideBlock(IpHistoryOf(agIn)) \/ OverrideBlock(SessionOf(agIn)))
           => /\ agOut.response.risk_score = 100
              /\ agOut.response.action = "ACTION_BLOCK_PERM"
              /\ agOut.response.challenge_type = Nil

\* a hijacked session on an otherwise quiet request that asks for a hold
C6_Witness ==
    /\ agPc = "done"
    /\ OverrideBlock(SessionOf(agIn)) /\ ~OverrideBlock(IpHistoryOf(agIn))
    /\ agOut.running.ip_history <= 30
    /\ ~IsNone(P2POf(agIn)) /\ P2POf(agIn).should_hold_funds
    /\ agOut.response.risk_score = 100
    /\ agOut.response.action = "ACTION_BLOCK_PERM"

Travel(in) == ~IsNone(GeoOf(in)) /\ GeoOf(in).impossible_travel_detected
Mule(in)   == ~IsNone(P2POf(in)) /\ P2POf(in).mule_pattern_detected

\* C9: impossible travel gives a final score >= 76, BLOCK_REVIEW or
\* BLOCK_PERM and the code OVERRIDE_IMPOSSIBLE_TRAVEL; a confirmed mule
\* pattern gives >= 91, BLOCK_PERM and OVERRIDE_MULE_PATTERN_CONFIRMED; both
\* together give >= 91; neither override lowers the score
C9_OverridesAreFloors ==
    agPc = "done" =>
        /\ Travel(agIn)
           => /\ agOut.response.risk_score >= 76
              /\ agOut.response.action \in {"ACTION_BLOCK_REVIEW", "ACTION_BLOCK_PERM"}
              /\ HasCode(agOut.response, Code(<<"OVERRIDE", "IMPOSSIBLE", "TRAVEL">>))
        /\ Mule(agIn)
           => /\ agOut.response.risk_score >= 91
              /\ agOut.response.action = "ACTION_BLOCK_PERM"
              /\ HasCode(agOut.response,
                         Code(<<"OVERRIDE", "MULE", "PATTERN", "CONFIRMED">>))
        /\ agOut.running.travel >= agOut.running.time_pattern
        /\ agOut.running.mule >= agOut.running.travel

\* both overrides on a score that was below both floors
C9_Witness ==
    /\ agPc = "done"
    /\ Travel(agIn) /\ Mule(agIn)
    /\ agOut.running.time_pattern < 76
    /\ agOut.running.travel = 76
    /\ agOut.response.risk_score = 91

HoldRequested(c) ==
    ~IsNone(daIn[c].p2p_result) /\ daIn[c].p2p_result.should_hold_funds

\* the decision table of the specification
TableAction(score) ==
    CASE score \in 0..30   -> <<"ACTION_APPROVE", Nil>>
      [] score \in 31..60  -> <<"ACTION_CHALLENGE_SOFT", "SMS_OTP">>
      [] score \in 61..75  -> <<"ACTION_CHALLENGE_HARD", "3DS">>
      [] score \in 76..90  -> <<"ACTION_BLOCK_REVIEW", Nil>>
      [] score \in 91..100 -> <<"ACTION_BLOCK_PERM", Nil>>

\* C7: the decision follows the table on every score in 0..100, except that
\* a requested hold turns a score <= 30 into CHALLENGE_HARD / 3DS; the hold
\* changes nothing above 30
C7_DecisionTable ==
    \A c \in DaCalls :
        daPc[c] = "done"
        => <<daOut[c].action, daOut[c].challenge>> =
              IF HoldRequested(c) /\ daIn[c].score <= 30
              THEN <<"ACTION_CHALLENGE_HARD", "3DS">>
              ELSE TableAction(daIn[c].score)

C7_Witness ==
    \E c \in DaCalls :
        /\ daPc[c] = "done" /\ HoldRequested(c) /\ daIn[c].score = 30
        /\ daOut[c].action = "ACTION_CHALLENGE_HARD"

Rank(action) == CASE action = "ACTION_APPROVE"        -> 0
                  [] action = "ACTION_CHALLENGE_SOFT" -> 1
                  [] action = "ACTION_CHALLENGE_HARD" -> 2
                  [] action = "ACTION_BLOCK_REVIEW"   -> 3
                  [] action = "ACTION_BLOCK_PERM"     -> 4

HoldOverride(c) == HoldRequested(c) /\ daIn[c].score <= 30

\* C8: without a preventive-hold override, a lower score never gets a more
\* restrictive action than a higher score
C8_DecisionMonotone ==
    \A c, d \in DaCalls :
        (/\ daPc[c] = "done" /\ daPc[d] = "done"
         /\ ~HoldOverride(c) /\ ~HoldOverride(d)
         /\ daIn[c].score < daIn[d].score)
        => Rank(daOut[c].action) <= Rank(daOut[d].action)

C8_Witness ==
    \E c, d \in DaCalls :
        /\ daPc[c] = "done" /\ daPc[d] = "done"
        /\ ~HoldOverride(c) /\ ~HoldOverride(d)
        /\ daIn[c].score = 75 /\ daIn[d].score = 76
        /\ Rank(daOut[c].action) < Rank(daOut[d].action)

\* the points the breakdown shows for a code are what the step that appended
\* the code added to the running score
Attributed(code, before, after) ==
    \A i \in 1..Len(agOut.response.score_breakdown) :
        agOut.response.score_breakdown[i].code = code
        => agOut.response.score_breakdown[i].points
              = agOut.running[after] - agOut.running[before]

\* C10: every breakdown entry carries the points its reason code contributed
\* to the final score of the request, an override's delta being attributed to
\* the override code (stated for the steps that append a single code)
C10_BreakdownConsistency ==
    agPc = "done" =>
        /\ Attributed(Code(<<"IP", "COUNTRY", "JUMP", "30MIN">>), "gps", "ip_history")
        /\ Attributed(Code(<<"IMPOSSIBLE", "IP", "JUMP", "5MIN">>), "gps", "ip_history")
        /\ Attributed(Code(<<"SESSION", "REPLAY", "ATTACK">>), "ip_history", "session")
        /\ Attributed(Code(<<"SESSION", "HIJACK", "DETECTED">>), "ip_history", "session")
        /\ Attributed(Code(<<"UNUSUAL", "HOUR", "3H", "NEVER", "ACTIVE">>),
                      "card_testing", "time_pattern")
        /\ Attributed(Code(<<"OVERRIDE", "IMPOSSIBLE", "TRAVEL">>), "time_pattern", "travel")
        /\ Attributed(Code(<<"OVERRIDE", "MULE", "PATTERN", "CONFIRMED">>),
                      "travel", "mule")

\* the same on the blacklist short circuit, where no module ran and the one
\* code accounts for the whole score
BlacklistBreakdownConsistency ==
    \A p \in Evals :
        (evalPc[p] = "returned" /\ evalBl[p].hit)
        => SumPoints(evalOut[p].score_breakdown) = evalOut[p].risk_score

\* the points listed never exceed the score they explain
BreakdownWithinScore ==
    agPc = "done" => SumPoints(agOut.response.score_breakdown) <= agOut.response.risk_score

Resolved(response) ==
    \A i \in DOMAIN response.score_breakdown :
        response.score_breakdown[i].category # "Otro"

\* C11: every reason code that an evaluation places in reason_codes resolves
\* in the catalog by exact key or by prefix: no breakdown entry of a returned
\* evaluation (blacklist exit or scored) comes from the unknown-code branch
C11_CatalogComplete ==
    /\ \A p \in Evals : evalPc[p] = "returned" => Resolved(evalOut[p])
    /\ agPc = "done" => Resolved(agOut.response)

\* the codes of the scored path other than the trust reduction do resolve
CatalogCompleteButTrust ==
    agPc = "done" =>
        \A i \in DOMAIN agOut.response.score_breakdown :
            LET e == agOut.response.score_breakdown[i]
            IN  e.category = "Otro" => SubSeq(e.code, 1, 2) = <<"TRUST", "REDUCTION">>

\* of the blacklist codes only the one of the BIN type is missing
CatalogCompleteButBin ==
    \A p \in Evals :
        evalPc[p] = "returned" /\ ~Resolved(evalOut[p])
            => evalOut[p].reason_codes = <<BlacklistCode("bin")>>

SameTriple(a, b) ==
    /\ a.transaction_id = b.transaction_id
    /\ a.action = b.action
    /\ a.risk_score = b.risk_score

\* C12: the signature of a response is the HMAC-SHA256 under the process
\* secret of the canonical JSON of {transaction_id, action, risk_score}: two
\* responses with the same three fields carry the same signature whatever
\* their reason codes, breakdown, message and latency
C12_SignatureOfTriple ==
    \A c \in SignCalls, d \in SignCalls :
        bs[c].pc = "done" /\ bs[d].pc = "done" =>
            /\ bs[c].out.signature =
                  Sign(HMAC_SECRET, Signable(bs[c].in.evaluation_id, bs[c].in.action,
                                             bs[c].in.risk_score))
            /\ SameTriple(bs[c].out, bs[d].out) => bs[c].out.signature = bs[d].out.signature

\* two responses with the same three fields that differ in codes, breakdown,
\* message and latency
C12_Witness ==
    /\ bs["first"].pc = "done" /\ bs["second"].pc = "done"
    /\ SameTriple(bs["first"].out, bs["second"].out)
    /\ bs["first"].out.reason_codes # bs["second"].out.reason_codes
    /\ bs["first"].out.score_breakdown # bs["second"].out.score_breakdown
    /\ bs["first"].out.user_message # bs["second"].out.user_message
    /\ bs["first"].response_time_ms # bs["second"].response_time_ms

\* both exits of evaluate_transaction sign the three fields they return
SignatureOnBothExits ==
    /\ \A p \in Evals :
          evalPc[p] = "returned" =>
              evalOut[p].signature =
                  Sign(HMAC_SECRET, Signable(evalOut[p].transaction_id, evalOut[p].action,
                                             evalOut[p].risk_score))
    /\ agPc = "done" =>
          agOut.response.signature =
              Sign(HMAC_SECRET, Signable(agOut.response.transaction_id,
                                         agOut.response.action, agOut.response.risk_score))

IsBlock(response) == response.action \in {"ACTION_BLOCK_REVIEW", "ACTION_BLOCK_PERM"}

\* C13: every evaluation whose action is a block (BLOCK_REVIEW or BLOCK_PERM,
\* reached by blacklist, override or score) carries the one generic decline
\* sentence as user_message
C13_BlockMessageGeneric ==
    /\ \A p \in Evals :
          evalPc[p] = "returned" /\ IsBlock(evalOut[p])
              => evalOut[p].user_message = MSG_DECLINED
    /\ agPc = "done" /\ IsBlock(agOut.response)
          => agOut.response.user_message = MSG_DECLINED

BlockMessage(action) ==
    IF action = "ACTION_BLOCK_PERM" THEN MSG_DECLINED ELSE MSG_REVIEW

\* C13 as amended: the user_message of a block is fixed by its action alone,
\* the decline sentence for BLOCK_PERM and the review sentence for
\* BLOCK_REVIEW, whichever detector, override or path produced the block
C13_BlockMessageByAction ==
    /\ \A p \in Evals :
          evalPc[p] = "returned" /\ IsBlock(evalOut[p])
              => evalOut[p].user_message = BlockMessage(evalOut[p].action)
    /\ agPc = "done" /\ IsBlock(agOut.response)
          => agOut.response.user_message = BlockMessage(agOut.response.action)

\* a review block that exists only through the travel override, on a P2P
\* transfer whose funds are to be held
C13_Witness ==
    /\ agPc = "done"
    /\ agOut.response.action = "ACTION_BLOCK_REVIEW"
    /\ agOut.running.time_pattern < 76
    /\ ~IsNone(GeoOf(agIn)) /\ GeoOf(agIn).impossible_travel_detected
    /\ ~IsNone(P2POf(agIn)) /\ P2POf(agIn).should_hold_funds

\* the size of a counter: the value of a number key, the cardinality of a set key
KvSize(cache, k) == IF k \in NumKeys THEN cache.num[k] ELSE Cardinality(cache.set[k])

MonotoneKeys ==
    {KvKey(t, u) : t \in {VELOCITY_KEY, FANOUT_1H_KEY, FANOUT_24H_KEY, FANIN_1H_KEY,
                          FANIN_24H_KEY, DAILY_VOL_KEY}, u \in KvUsers}

\* C14: within a key's TTL window the value of velocity:{uid}:10m, the
\* cardinalities of the four P2P fan-out and fan-in sets and the value of
\* p2p:daily_vol:{uid} never decrease: a step that lowers one of them is the
\* expiry of that key
C14_CountersMonotone ==
    [][\A k \in MonotoneKeys :
          KvSize(kv', k) < KvSize(kv, k) => kv.ttl[k].secs > 0 /\ kv'.ttl[k] = NoKey]_vars

\* a sender whose daily volume and fan-out have grown twice within one
\* window
C14_Witness ==
    \E u \in KvUsers :
        /\ kv.num[KvKey(DAILY_VOL_KEY, u)] = 550
        /\ Cardinality(kv.set[KvKey(FANOUT_1H_KEY, u)]) = 2
        /\ kv.ttl[KvKey(DAILY_VOL_KEY, u)] = Expire(SECONDS_24H, 2)

ScriptKeys == {KvKey(t, u) : t \in {VELOCITY_KEY, LIMIT_KEY, CARDS_KEY}, u \in KvUsers}

\* the counts 1, 2, ..., n in this order
Consecutive(n) == [i \in 1..n |-> i]

\* the executions of the script for one user have returned distinct
\* consecutive tx counts, and every key of the script that exists has an expiry
ScriptAtomic ==
    /\ \A u \in KvUsers : kv.handed[u] = Consecutive(kv.num[KvKey(VELOCITY_KEY, u)])
    /\ \A k \in ScriptKeys : kv.ttl[k] # NoKey => kv.ttl[k].secs > 0

\* a key of the script that has an expiry keeps it, unchanged, for as long as
\* it exists
ExpiryNotExtended ==
    \A k \in ScriptKeys : kv.ttl[k].secs > 0 /\ kv'.ttl[k] # NoKey => kv'.ttl[k] = kv.ttl[k]

\* C16: the executions of the velocity script do not interleave: the
\* executions for one user return distinct consecutive tx counts, no execution
\* leaves a key it created without a TTL, and the TTL of a key is set at its
\* creation and never extended by a later execution
C16_VelocityAtomic == []ScriptAtomic /\ [][ExpiryNotExtended]_vars

\* two executions for one user: the second returned 2 and kept the expiries
\* the first had set
C16_Witness ==
    \E u \in KvUsers :
        /\ kv.handed[u] = <<1, 2>>
        /\ kv.calls = 2
        /\ kv.num[KvKey(LIMIT_KEY, u)] = 550
        /\ \A t \in {VELOCITY_KEY, LIMIT_KEY, CARDS_KEY} : kv.ttl[KvKey(t, u)].at = 1


\* the background task has ended, in either way
BgEnded == fl.bg \in {"done", "failed"}

\* C15: once the writes of an evaluation and of its background task are over,
\* under any interleaving and any failure of one cache operation in the
\* middle of a multi-step update, every key the engine has written carries a
\* TTL (blacklist entries and trust-profile keys apart)
C15_EveryKeyHasTtl == BgEnded => fl.bare = {}

\* the writers allowed to write before the response is built
MutatingReaders == {"velocity", "session_guard", "card_testing", "time_pattern"}

HasWritten == {w \in Writers : fl.wrote[w] # {}}

\* C17: between the start of an evaluation and the moment its response is
\* built, the only cache writes are those of the velocity script, the session
\* guard, card testing and the time pattern: every other writer writes after
\* the response is returned
C17_WritesAfterResponse == fl.pc \in {"rate", "fanout", "built"} => HasWritten \subseteq MutatingReaders

\* C18: within one evaluation and its background task, the sets of keys
\* written by two different writers are disjoint
C18_WritersDisjoint ==
    \A w1 \in Writers, w2 \in Writers : w1 # w2 => fl.wrote[w1] \cap fl.wrote[w2] = {}

\* an approved P2P transfer from a device whose id looks like a key suffix,
\* after its background task has run to its end: all twelve writers have written
C18_Witness ==
    /\ fl.bg = "done"
    /\ HasWritten = Writers
    /\ Len(fl.payload.device_id) > 1

\* C19: the returned evaluation is the one built before the background task
\* was started, the task never changes it, and no counter or audit write of
\* the evaluation is applied more than once, whatever fails in the task
C19_Detached ==
    /\ fl.bg # "none" => fl.returned = fl.response /\ fl.response # NoOutcome
    /\ \A w \in BgWrites : fl.applied[w] <= 1

\* the returned evaluation is the one built before the task was started, and
\* the steps of the task leave it as it is
ResponseDetached ==
    /\ fl.bg # "none" => fl.pc = "returned" /\ fl.returned = fl.response
                         /\ fl.response # NoOutcome
    /\ fl.bg = "none" => fl.returned = NoOutcome

\* C20: once the deadline of the fan-out has elapsed the orchestrator no
\* longer waits for a task that has not produced its result
C20_DeadlineFallback == fl.late => ~(fl.pc = "fanout" /\ fl.pending # {})

\* what the specification gives for a check made `elapsed` seconds after the
\* record of a preceding check from prev_country
IpJumpTable(prev_country, ip_country, elapsed) ==
    IF prev_country = Nil \/ prev_country = ip_country \/ elapsed >= 1800 THEN NoIpResult
    ELSE IF elapsed < 300
         THEN [penalty |-> 50, reason_codes |-> <<"IMPOSSIBLE_IP_JUMP_5MIN">>,
               override_block |-> TRUE]
         ELSE [penalty |-> 25, reason_codes |-> <<"IP_COUNTRY_JUMP_30MIN">>,
               override_block |-> FALSE]

\* the calls of check that have their result
IhScored == {dt.ih.call[c] : c \in DtCalls} \cup {dt.ih.out}

\* C26: while no cache command fails, a check is scored against the record
\* of the check that completed last before it (override with
\* IMPOSSIBLE_IP_JUMP_5MIN for a country change within 5 min, +25 with
\* IP_COUNTRY_JUMP_30MIN within 30 min, nothing otherwise), and the record in
\* the cache is the (ip, country, now) of the check that completed last
C26_IpHistorySequencing ==
    dt.ih.clean =>
        /\ \A call \in IhScored :
              call.pc # "idle" =>
                  call.result = IpJumpTable(call.prev.country, call.ip_country,
                                            call.now - call.prev.ts)
        /\ dt.ih.store # NoIpRec =>
              dt.ih.last = [ip |-> dt.ih.store.ip, country |-> dt.ih.store.country,
                            ts |-> dt.ih.store.ts]
        /\ dt.ih.last # NoIpSeen /\ dt.now < dt.ih.last.ts + USER_IP_TTL =>
              dt.ih.store # NoIpRec

\* a check from another country exactly 300 s after the preceding one: +25,
\* no override, and the record rewritten
C26_Witness ==
    /\ dt.ih.clean
    /\ dt.ih.out.pc = "done"
    /\ dt.ih.out.prev.country \notin {Nil, dt.ih.out.ip_country}
    /\ dt.ih.out.now - dt.ih.out.prev.ts = 300
    /\ dt.ih.out.result.penalty = 25
    /\ dt.ih.store.ts = dt.ih.out.now

\* the calls of analyze in progress and the one that has just returned
GeoCalls == {dt.geo.call[c] : c \in DtCalls} \cup {dt.geo.out}

\* the calls that have gone through CHECK 5
GeoTravelChecked ==
    {call \in GeoCalls : /\ call.pc \in {"history", "update_last", "add_get", "add_set", "done"}
                         /\ call.place # "ZERO"
                         /\ ~call.result.traveler_mode_active}

\* the specification's condition on the position `prev` and the analysis
\* from `place` in `country` at `now`: elapsed / 3600 < d / 900 + 3 with d in
\* kilometres, here in metres and seconds
TravelIsImpossible(prev, place, country, now) ==
    /\ prev # NoGeoSeen
    /\ prev.country # country
    /\ haversine(prev.place, place) >= 100000
    /\ (now - prev.ts) * 250 < haversine(prev.place, place) + 2700000

\* the score and codes of CHECK 2, 3 and 4 for a call
GeoBeforeTravel(call) ==
    CheckGpsIpDistance(
        CheckHighRisk(
            CheckMismatch(NoGeoResult, call.ip_country,
                          approximate_country_from_coords(call.place), call.bin_country),
            call.ip_country, approximate_country_from_coords(call.place)),
        call.place, call.ip_country)

\* C27: an analysis with a position other than (0, 0) and no matching trip
\* sets impossible_travel_detected, adding 40 and IMPOSSIBLE_TRAVEL_DETECTED,
\* exactly when the analysis before it left a position in another country,
\* at least 100 km away, less than d/900 h + 3 h ago; when the analysis
\* returns, last_tx holds its own position
C27_ImpossibleTravel ==
    /\ \A call \in GeoTravelChecked :
          LET expected == TravelIsImpossible(call.prev, call.place, call.ip_country, call.at)
          IN  /\ call.result.impossible_travel_detected = expected
              /\ call.pc = "history" =>
                    call.result =
                        IF expected
                        THEN [GeoAdd(GeoBeforeTravel(call), 40, "IMPOSSIBLE_TRAVEL_DETECTED")
                                EXCEPT !.impossible_travel_detected = TRUE]
                        ELSE GeoBeforeTravel(call)
    /\ dt.geo.out.pc = "done" =>
          /\ dt.geo.last_tx.place   = dt.geo.out.place
          /\ dt.geo.last_tx.country = dt.geo.out.ip_country
          /\ dt.geo.last_tx.ts      = dt.geo.out.at

\* New York, 24237 s after an analysis in Mexico City from another country:
\* detected, and the position replaced
C27_Witness ==
    /\ dt.geo.out.pc = "done"
    /\ dt.geo.out.place = "NYC"
    /\ dt.geo.out.prev.place = "CDMX"
    /\ dt.geo.out.at - dt.geo.out.prev.ts = 24237
    /\ dt.geo.out.result.impossible_travel_detected
    /\ dt.geo.last_tx.place = "NYC"

\* the result of the positive path of traveler mode
TravelerResult ==
    [score |-> 0, reason_codes |-> <<"TRAVELER_MODE_ACTIVE">>,
     impossible_travel_detected |-> FALSE, traveler_mode_active |-> TRUE,
     is_new_country |-> FALSE]

\* the codes of a result
GeoCodes(result) == {result.reason_codes[i] : i \in DOMAIN result.reason_codes}

\* C28: an analysis with a position other than (0, 0) reports
\* TRAVELER_MODE_ACTIVE exactly when, at its call, a trip has been declared
\* and not cancelled, has not expired and names its country; its result is
\* then that code alone with no penalty, and at its return last_tx and the
\* country history hold its position and country
C28_TravelerLifecycle ==
    \A call \in GeoCalls :
        call.pc # "idle" /\ call.place # "ZERO" =>
            LET declared == /\ call.decl # NoDecl
                            /\ call.ip_country \in call.decl.destination_countries
                            /\ call.at < call.decl.until
            IN  /\ call.result.traveler_mode_active = declared
                /\ ("TRAVELER_MODE_ACTIVE" \in GeoCodes(call.result)) = declared
                /\ declared => call.result = TravelerResult
                /\ declared /\ call.pc = "done" =>
                      /\ dt.geo.last_tx.place = call.place
                      /\ dt.geo.last_tx.ts = call.at
                      /\ call.ip_country \in dt.geo.history.countries

\* an analysis during a declared trip, and one after its cancellation from
\* a country the trip named
C28_Witness ==
    /\ dt.geo.out.pc = "done"
    /\ dt.geo.out.result.traveler_mode_active
    /\ dt.geo.out.ip_country = "RU"
    /\ dt.geo.last_tx.country = "RU"
    /\ "RU" \in dt.geo.history.countries

C28_WitnessCancelled ==
    /\ dt.geo.out.pc = "done"
    /\ dt.geo.out.ip_country = "RU"
    /\ dt.geo.out.place # "ZERO"
    /\ dt.geo.trip = NoDecl
    /\ dt.geo.out.decl = NoDecl
    /\ dt.geo.traveler = NoTraveler
    /\ dt.calls = MaxDtCalls
    /\ ~dt.geo.out.result.traveler_mode_active

\* the place of a country in the order of last use, 0 when never used
UsedAt(country) ==
    IF \E i \in DOMAIN dt.geo.used : dt.geo.used[i] = country
    THEN CHOOSE i \in DOMAIN dt.geo.used : dt.geo.used[i] = country
    ELSE 0

\* C29: the country history holds at most 20 countries, the countries it
\* has lost were all used less recently than those it holds, the country of
\* the analysis that has just returned is in it, and an analysis from the
\* country of the analysis before it is not scored as a new country
C29_BoundedLruHistory ==
    /\ Cardinality(dt.geo.history.countries) <= 20
    /\ \A kept \in dt.geo.history.countries :
          \A i \in DOMAIN dt.geo.used :
              dt.geo.used[i] \notin dt.geo.history.countries => i < UsedAt(kept)
    /\ dt.geo.out.pc = "done" /\ dt.geo.out.place # "ZERO" =>
          dt.geo.out.ip_country \in dt.geo.history.countries
    /\ \A c \in DtCalls :
          /\ dt.geo.call[c].pc \in {"update_last", "add_get", "add_set"}
          /\ ~dt.geo.call[c].result.traveler_mode_active
          /\ dt.geo.used # <<>>
          /\ dt.geo.used[Len(dt.geo.used)] = dt.geo.call[c].ip_country
          => ~dt.geo.call[c].result.is_new_country

\* the part of C29 that the code keeps: never more than 20 countries
HistoryBounded == Cardinality(dt.geo.history.countries) <= HISTORY_MAX_COUNTRIES

\* C30: below the cap and with no cache error, the country of every
\* analysis that has returned is in the stored history, however the reads
\* and writes of concurrent analyses interleave
C30_NoLostUpdate ==
    \A i \in DOMAIN dt.geo.used : dt.geo.used[i] \in dt.geo.history.countries

\* the calls of analyze that have scored the country against the history
GeoHistoryChecked ==
    {call \in GeoCalls : /\ call.pc \in {"update_last", "add_get", "add_set", "done"}
                         /\ call.place # "ZERO"
                         /\ ~call.result.traveler_mode_active}

\* C21: a cache command that fails adds no penalty to an analysis: it
\* reports a new country, with +15 and NEW_COUNTRY, only when the country
\* is not in the history the cache holds
C21_FailOpen ==
    \A call \in GeoHistoryChecked :
        /\ call.result.is_new_country => call.ip_country \notin call.stored
        /\ NewCountryCode(call.ip_country) \in GeoCodes(call.result)
               => call.ip_country \notin call.stored

\* the requests made in the `window` seconds before now, the one being
\* scored included
InWindow(window) ==
    Cardinality({i \in DOMAIN dt.rate.times : dt.now - dt.rate.times[i] < window})

\* the tiers of the specification
IpTier(n)   == IF n >= 11 THEN 45 ELSE IF n >= 7 THEN 25 ELSE IF n >= 4 THEN 10 ELSE 0
UserTier(n) == IF n >= 20 THEN 40 ELSE IF n >= 10 THEN 20 ELSE IF n >= 5 THEN 8 ELSE 0

\* C25: the penalty of a scored request is the tier of the number of
\* requests of the address in the preceding 60 s plus the tier of the
\* number of requests of the user in the preceding 300 s, at most 60: a
\* request older than the window does not count
C25_SlidingWindows ==
    dt.rate.out.pc = "done" /\ dt.rate.out.ok =>
        dt.rate.out.result.penalty =
            Min(IpTier(InWindow(60)) + UserTier(InWindow(300)), 60)

\* the part of C25 that the code keeps: the tiers are those of the counters
\* and the total is at most 60
TiersOfCounters ==
    dt.rate.out.pc = "done" /\ dt.rate.out.ok =>
        /\ dt.rate.out.result.penalty =
              Min(IpTier(dt.rate.ip.n) + UserTier(dt.rate.user.n), 60)
        /\ dt.rate.ip.n >= InWindow(60)
        /\ dt.rate.user.n >= InWindow(300)

\* the sum of five weights, in hundredths
SumOfWeights(w) == w[1] + w[2] + w[3] + w[4] + w[5]

\* C22: a process that serves evaluations has weights that sum to 1, and
\* the weighted score it computes from five scores in [0, 100] lies in
\* [0, 100]
C22_WeightsValidated ==
    dt.boot.pc = "serving" =>
        /\ SumOfWeights(dt.boot.weights) = 100
        /\ dt.boot.weighted \in 0..10000

\* the part of C22 that the code keeps: with the weights as shipped the
\* weighted score lies in [0, 100]
ShippedWeightsInRange ==
    dt.boot.weights = ShippedWeights => dt.boot.weighted \in 0..10000

\* C24: add, check and remove compose as a keyed store: a check whose MGET
\* succeeds hits exactly when the store holds an entry, written by add and
\* not removed or expired since, for one of the four entities of the
\* payload, and it hits with the type of the first such entity
C24_KeyedStore ==
    \A p \in Evals :
        evalPc[p] \notin {"idle", "blacklist"} /\ evalSeen[p].read_ok =>
            /\ evalBl[p].hit = (evalSeen[p].held # Nil)
            /\ evalBl[p].hit => evalBl[p].blacklist_type = evalSeen[p].held

\* the part of C24 that the code keeps: on an interpreter that formats the
\* member of the enumeration as its value, check reads the keys add writes
KeyedStoreOnValueFormat == (pyEnumFmt = "value") => C24_KeyedStore

\* the keys an evaluation has written, whoever wrote them
FlWritten == UNION {fl.wrote[w] : w \in Writers}

\* C23: on a blacklist hit the evaluation runs no analysis module and
\* dispatches no post-processing: it returns ACTION_BLOCK_PERM with every
\* cache key left as it was; in particular the session key of the request is
\* not consumed and its device is not recorded as known
C23_BlacklistHitWritesNothing ==
    fl.hit # Nil =>
        /\ fl.pc = "returned"
        /\ fl.returned.action = "ACTION_BLOCK_PERM"
        /\ fl.pending = {} /\ ~fl.late
        /\ fl.bg = "none"
        /\ FlWritten = {} /\ fl.bare = {}
        /\ \A w \in BgWrites : fl.applied[w] = 0
        /\ SessionKeys(fl.payload) \cap FlWritten = {}
        /\ DeviceKeys(fl.payload) \cap FlWritten = {}

C23_Witness ==
    /\ fl.hit = "device"
    /\ fl.pc = "returned"
    /\ fl.returned.reason_codes = <<BlacklistCode("device")>>
    /\ FlIsP2P(fl.payload)

\* the result carries the code of the micro-then-large pattern
CtPattern(result) ==
    \E i \in 1..Len(result.reason_codes) :
        result.reason_codes[i].code = "CARD_TESTING_PATTERN_PROBES"

\* the codes a check of a large amount owes to the amounts kept before its own
CtExpected(out) ==
    IF MicroCount(out.own) >= PROBE_THRESHOLD
    THEN <<[code |-> "CARD_TESTING_PATTERN_PROBES", n |-> MicroCount(out.own)]>>
    ELSE <<>>

\* C31: every check pushes its amount to the list of the (device, BIN) pair,
\* which keeps the 10 newest; a check of an amount >= 200 adds +40 and
\* CARD_TESTING_PATTERN_{n}_PROBES exactly when n >= 3 of the amounts kept
\* before its own are <= 10; a check of a smaller amount never does; under
\* concurrent checks of one pair the amount left out as current is the
\* caller's own
C31_CardTestingPattern ==
    LET out == dt.ct.out
        pattern == SelectSeq(out.result.reason_codes,
                             LAMBDA r : r.code = "CARD_TESTING_PATTERN_PROBES")
    IN  /\ Len(dt.ct.amounts) <= AMOUNTS_KEPT
        /\ (out.pc = "done" /\ out.ok /\ out.amount < LARGE_THRESHOLD) => ~CtPattern(out.result)
        /\ (out.pc = "done" /\ out.ok /\ out.amount >= LARGE_THRESHOLD) =>
              /\ out.read # <<>> /\ Head(out.read).by = out.id
              /\ pattern = CtExpected(out)

\* the part of C31 that holds under any interleaving: the cap of the list,
\* no pattern penalty below 200, and the pattern decided by the amounts read
CardTestingOfAmountsRead ==
    LET out == dt.ct.out
    IN  /\ Len(dt.ct.amounts) <= AMOUNTS_KEPT
        /\ (out.pc = "done" /\ out.ok /\ out.amount < LARGE_THRESHOLD) => ~CtPattern(out.result)
        /\ (out.pc = "done" /\ out.ok /\ out.amount >= LARGE_THRESHOLD) =>
              (CtPattern(out.result) <=> MicroCount(LRangeFrom1(out.read)) >= PROBE_THRESHOLD)

\* the reading of the pattern on the amounts kept before the check's own push;
\* it fails where a concurrent check pushed between the pipeline and the LRANGE
CardTestingMissed ==
    LET out == dt.ct.out
    IN  (out.pc = "done" /\ out.ok /\ out.amount >= LARGE_THRESHOLD)
            => (CtPattern(out.result) <=> MicroCount(out.own) >= PROBE_THRESHOLD)

\* C32: a score call that read a counter below 10 returns no penalty; it
\* returns +15 and UNUSUAL_HOUR_{h}H_NEVER_ACTIVE exactly when it read a
\* counter >= 10 and a 0 bit at hour h; it then sets bit h and increments the
\* counter, no bit is cleared while the keys live, and a call at an hour at
\* which an earlier call had completed is not penalised
C32_TimePatternMemory ==
    LET out == dt.tp.out
    IN  /\ dt.tp.done \subseteq dt.tp.bitmap
        /\ (out.pc = "done" /\ out.clean) =>
              /\ out.tx_count < MIN_TX_BEFORE_PENALIZING => out.result = NoTpResult
              /\ out.result = (IF out.tx_count >= MIN_TX_BEFORE_PENALIZING
                                  /\ out.bit_active = <<0>>
                               THEN [penalty |-> 15,
                                     reason_codes |-> <<[code |-> "UNUSUAL_HOUR_H_NEVER_ACTIVE",
                                                         n |-> out.hour]>>]
                               ELSE NoTpResult)
              /\ out.hour \in dt.tp.bitmap
              /\ out.after = out.before + 1 /\ out.before >= out.tx_count
              /\ out.hour \in out.done => out.result = NoTpResult

\* a call past the calibration, at an hour never seen, is penalised; the
\* counter had been brought to 10 by the calls of the run
C32_Witness ==
    /\ dt.tp.out.pc = "done" /\ dt.tp.out.clean
    /\ dt.tp.out.tx_count = MIN_TX_BEFORE_PENALIZING
    /\ dt.calls = 3
    /\ dt.tp.out.hour = 14 /\ dt.tp.out.result.penalty = 15
    /\ dt.tp.out.done = {3}

\* a call past the calibration at an hour seen before returns no penalty
TimePatternRemembered ==
    /\ dt.tp.out.pc = "done" /\ dt.tp.out.clean
    /\ dt.tp.out.tx_count >= MIN_TX_BEFORE_PENALIZING
    /\ dt.tp.out.hour \in dt.tp.out.done
    /\ dt.tp.out.result = NoTpResult

\* the calls of the run whose update a counter holds
UpdatesIn(k) == UNION {{e.by : e \in dt.p2p.keys[k][u].members} : u \in P2PUsers} \ {0}

\* C33: the reads of an analysis come before its own counter update, so no
\* read meets the analysed transfer itself; only the smurfing check adds the
\* amount of the transfer, as projected volume; and the five counter updates
\* of an analysis are applied together or not at all
C33_ReadsExcludeOwnTransfer ==
    /\ \A c \in DtCalls : dt.p2p.call[c].id \notin dt.p2p.call[c].seen
    /\ \A c \in DtCalls : dt.p2p.call[c].pc = "reads" =>
                             \A k \in P2PCounters : dt.p2p.call[c].id \notin UpdatesIn(k)
    /\ dt.p2p.out.pc = "done" =>
          /\ dt.p2p.out.id \notin dt.p2p.out.seen
          /\ dt.p2p.out.result.smurfing_detected <=>
                (/\ dt.p2p.out.amount < SMURFING_SINGLE_LIMIT
                 /\ dt.p2p.out.read["daily_vol"] + dt.p2p.out.amount > SMURFING_DAILY_LIMIT)
    /\ \A k1, k2 \in P2PCounters : UpdatesIn(k1) = UpdatesIn(k2)

\* the second analysis of the run returns: its reads met the update of the
\* first and not its own, which is now applied to the five counters
C33_Witness ==
    /\ dt.p2p.out.pc = "done" /\ dt.p2p.out.clean
    /\ dt.p2p.out.id = 2
    /\ dt.p2p.out.seen = {0, 1}
    /\ dt.p2p.out.read["fanin_1h"] = 6
    /\ \A k \in P2PCounters : UpdatesIn(k) = {1, 2}

\* the drain record of the profile is a rapid drain
RapidDrain(profile) ==
    /\ ~IsNone(profile.drain)
    /\ profile.drain.elapsed < DRAIN_WINDOW_SEC
    /\ profile.drain.drained_pct > DRAIN_PCT_THRESHOLD

\* C34: the 1 h fan-in an analysis reads for a recipient is the number of
\* distinct senders whose transfer to that recipient was analysed within the
\* last hour; with more than 5 of them the analysis sets
\* mule_pattern_detected (+25) and the evaluation ends with a score >= 91 and
\* ACTION_BLOCK_PERM; with 5 or fewer and no rapid drain it does not
C34_FanInMule ==
    LET out == dt.p2p.out
    IN  (out.pc = "done" /\ out.clean) =>
           /\ out.read["fanin_1h"] = out.inwin["fanin_1h"]
           /\ out.inwin["fanin_1h"] > FANIN_LIMIT_1H =>
                 /\ out.result.mule_pattern_detected
                 /\ out.result.score >= PENALTY_FANIN_HIGH
                 /\ \A s \in {0, 50, 100} :
                       /\ MuleOverride(s, out.result).score >= 91
                       /\ determine_action(MuleOverride(s, out.result).score,
                                           out.result).action = "ACTION_BLOCK_PERM"
           /\ (out.inwin["fanin_1h"] <= FANIN_LIMIT_1H /\ ~RapidDrain(out.profile))
                 => ~out.result.mule_pattern_detected

\* the part of C34 that the code keeps: the mule flag follows the cardinality
\* of the set as read, whatever the age of its members
MuleOfSetAsRead ==
    LET out == dt.p2p.out
    IN  (out.pc = "done" /\ out.clean) =>
           (out.result.mule_pattern_detected
               <=> (out.read["fanin_1h"] > FANIN_LIMIT_1H \/ RapidDrain(out.profile)))

\* C35: the daily volume an analysis reads for a sender is the sum of the
\* amounts of the sender's transfers analysed within the last 24 h; the
\* transfer is flagged smurfing_detected (+35, code
\* SMURFING_DAILY_VOL_{projected}_TX_AMOUNT_{amount}) exactly when its amount
\* is < 1000 and that volume plus its amount is > 9000
C35_SmurfingVolume ==
    LET out == dt.p2p.out
        projected == out.inwin["daily_vol"] + out.amount
        smurfing  == out.amount < SMURFING_SINGLE_LIMIT /\ projected > SMURFING_DAILY_LIMIT
    IN  (out.pc = "done" /\ out.clean) =>
           /\ out.read["daily_vol"] = out.inwin["daily_vol"]
           /\ out.result.smurfing_detected <=> smurfing
           /\ smurfing =>
                 \E i \in 1..Len(out.result.reason_codes) :
                     out.result.reason_codes[i] =
                         P2PCode("SMURFING_DAILY_VOL_TX_AMOUNT", projected, out.amount)
           /\ out.amount >= SMURFING_SINGLE_LIMIT => ~out.result.smurfing_detected

\* the part of C35 that the code keeps: smurfing is decided on the value of
\* the key as read, and never for an amount of 1000 or more
SmurfingOfVolumeAsRead ==
    LET out == dt.p2p.out
    IN  (out.pc = "done" /\ out.clean) =>
           (out.result.smurfing_detected
               <=> (/\ out.amount < SMURFING_SINGLE_LIMIT
                    /\ out.read["daily_vol"] + out.amount > SMURFING_DAILY_LIMIT))


\* the points of the form-fill-time rule as the specification words it
FormFillPoints(f) ==
    IF f = NoneField THEN 0
    ELSE IF f < 3 THEN 30
    ELSE IF f <= 8 THEN 15
    ELSE IF f > 900 THEN 10
    ELSE 0

\* C36: a scored request carries the points of the form-fill-time rule: its
\* score is the score of the same request without the field plus 30 when the
\* form was filled in less than 3 s, 15 between 3 and 8 s, 10 above 900 s and
\* nothing otherwise or when the field is absent (up to the ceiling of 100)
C36_FormFillRule ==
    agPc = "done" /\ "form_fill_time_seconds" \in DOMAIN agIn.payload =>
        LET f    == agIn.payload.form_fill_time_seconds
            base == Aggregate(FormFillPayload(agIn.payload, NoneField),
                              agIn.raw_results, agIn.rate).final_score
        IN  agOut.response.risk_score =
               IF base + FormFillPoints(f) > 100 THEN 100 ELSE base + FormFillPoints(f)

\* what the scoring does with the field: the response is the one of the same
\* request without it
FormFillTimeIgnored ==
    agPc = "done" /\ "form_fill_time_seconds" \in DOMAIN agIn.payload =>
        LET a == Aggregate(FormFillPayload(agIn.payload, NoneField),
                           agIn.raw_results, agIn.rate)
        IN  /\ agOut.response.risk_score = a.final_score
            /\ agOut.response.reason_codes = Dedup(a.reason_codes)
            /\ agOut.response.action = a.decision.action


\* the sum of the reductions that the fields of a profile earn
TrustSumOf(p) ==
    (IF p.incident_free_months >= 6 THEN -15
     ELSE IF p.incident_free_months >= 2 THEN -8 ELSE 0)
    + (IF p.kyc_level = "full" THEN -7 ELSE IF p.kyc_level = "basic" THEN -3 ELSE 0)
    + (IF p.mfa_active THEN -5 ELSE 0)
    + (IF p.is_frequent_device THEN -5 ELSE 0)
    + (IF p.country_in_history THEN -3 ELSE 0)

\* C37: the trust reduction of every profile the service returns is the sum
\* of the reductions its fields earn (-15 or -8, -7 or -3, -5, -5, -3),
\* floored at -25, hence within [-25, 0] and never positive; it is 0 when the
\* cache did not answer and when the cache holds no profile of the user
C37_TrustReductionBounds ==
    LET out == dt.trust.out
    IN  out.pc = "done" /\ ~IsException(out.result) =>
           /\ out.result.trust_reduction = Max(TrustSumOf(out.result), -25)
           /\ out.result.trust_reduction \in (-25)..0
           /\ ~out.ok => out.result.trust_reduction = 0
           /\ dt.trust.store = NoTrustStore => out.result.trust_reduction = 0

\* a full profile on a known device and country earns 35 points and gets 25
C37_Witness ==
    LET out == dt.trust.out
    IN  /\ out.pc = "done" /\ out.ok /\ ~IsException(out.result)
        /\ TrustSumOf(out.result) = -35
        /\ out.result.trust_reduction = -25
        /\ Len(out.result.breakdown) = 5


\* C38: an issued OTP is used once: whatever the interleaving of the verify
\* calls, at most one of them returns the context for a given issuance
C38_OtpSingleUse ==
    \A g \in Issuances : dt.otp.wins[g] <= 1

\* C39: an issued OTP meets at most OTP_MAX_ATTEMPTS wrong codes, and no
\* verify returns the context of an OTP that has that many recorded failures
C39_OtpAttemptLimit ==
    /\ \A g \in Issuances : dt.otp.fails[g] <= OTP_MAX_ATTEMPTS
    /\ dt.otp.out.op = "verify" /\ dt.otp.out.result = "context" =>
          dt.otp.out.recorded < OTP_MAX_ATTEMPTS

\* C40: generate_and_send declines to issue only while an OTP of the user is
\* active (and the cooldown of the last issuance runs), and when it returns
\* True without declining it has stored the OTP and the mailer has sent it
C40_OtpIssuance ==
    LET out == dt.otp.out
    IN  out.op = "generate" /\ out.result = "True" =>
           IF out.refused THEN out.active ELSE out.stored /\ out.sent

\* what generate_and_send keeps: True from a call that was not declined
\* means the four keys were written and the code was mailed, and a call is
\* declined exactly while the cooldown key of the last issuance is there
OtpIssuedWhenNotDeclined ==
    LET out == dt.otp.out
    IN  /\ out.op = "generate" /\ out.result = "True" /\ ~out.refused =>
              out.stored /\ out.sent /\ dt.otp.issued = out.gen
        /\ out.op = "generate" /\ out.refused => dt.otp.cooldown.there
====
